---- MODULE Spec2Model ----
(***************************************************************************)
(* Verification model of obsidian-webpage-export:                          *)
(*   - WebExportManager.exportFiles (web-export-manager.ts), one export    *)
(*     run as a sequence of awaited steps;                                 *)
(*   - EnhancedDockerIntegration.exportForDocker / runDockerExport,        *)
(*     VaultValidator.validateVault and DockerLogger (vault-validator.ts,  *)
(*     main.ts).                                                           *)
(* Strings built by concatenation are modelled as sequences of their       *)
(* parts, so that "the message contains the underlying error" is a fact    *)
(* about the sequence.                                                     *)
(***************************************************************************)
EXTENDS Integers, Sequences, FiniteSets, TLC

VARIABLES
    pc,             \* position inside WebExportManager.exportFiles
    files,          \* number of TFile entries handed to exportFiles
    destination,    \* the destination Path: isAbsolute, isDirectory, creatable
    vault,          \* the vault seen by validateVaultStructure
    saveFiles,      \* parameter saveFiles
    deleteOld,      \* parameter deleteOld
    destExists,     \* destination.exists: the directory is on disk
    disk,           \* files present below the destination
    fsBefore,       \* snapshot of (destExists, disk) taken when the request starts
    website,        \* the Website returned by build(), or NoWebsite
    cursor,         \* index of the next entry of website.index.deletedFiles
    calls,          \* collaborator calls of this run, in order
    deleteAttempts, \* paths handed to Path.delete(), in order
    written,        \* files persisted by Utils.downloadAttachments, in order
    notices,        \* Notice texts shown to the user
    exportLog,      \* ExportLog entries: [kind, text]
    thrown,         \* the error travelling to the catch block, or NoError
    result          \* what exportFiles returned: "pending", "undefined", "website"

VARIABLES
    dpc,            \* position inside runDockerExport / exportForDocker
    env,            \* process.env as read by the logger and the config loader
    dvault,         \* the directory tree VaultValidator looks at
    entry,          \* "cli" (runDockerExport) or "api" (exportForDocker called directly)
    options,        \* DockerExportOptions of the call
    logger,         \* the DockerLogger singleton: logLevel, isCI, logEntries, out
    operationId,    \* value returned by startOperation
    error,          \* the exception caught by exportForDocker, or NoException
    exportCalled,   \* performExport has been invoked
    dresult,        \* the DockerExportResult returned, or NoResult
    exitCode,       \* argument of process.exit, or -1 while the process runs
    run             \* the exportForDocker call in progress: its number, the log when it began

exportVars == <<pc, files, destination, vault, saveFiles, deleteOld, destExists,
                disk, fsBefore, website, cursor, calls, deleteAttempts, written,
                notices, exportLog, thrown, result>>

dockerVars == <<dpc, env, dvault, entry, options, logger, operationId, error,
                exportCalled, dresult, exitCode, run>>

VARIABLES
    DEFAULT_WEB_CONFIG, \* the module-level default configuration object
    config,         \* the configuration object last resolved (loader or settings tab)
    overrides,      \* configOverrides of the last loadConfiguration call
    configErrors,   \* what validateWebConfig returned for config, last time it ran
    console,        \* console.warn lines of the configuration code
    lastOp,         \* the configuration operation that ran last
    ops             \* number of configuration operations so far

configVars == <<DEFAULT_WEB_CONFIG, config, overrides, configErrors, console, lastOp, ops>>

VARIABLES
    lastCall,       \* the logger method called last: its level, the logger before it, its value
    logCalls        \* number of direct logger calls so far

loggerVars == <<lastCall, logCalls>>

VARIABLES
    previousManifest, \* the manifest the previous export persisted: path -> metadata
    currentFileSet,   \* the files this run intends to produce: path -> metadata
    index             \* the derived sets of the export index, or NoIndex

indexVars == <<previousManifest, currentFileSet, index>>

VARIABLES
    Settings,       \* the static fields of class Settings in the running plugin
    pluginData,     \* the plugin's persisted data (data.json), or Null when there is none
    loads,          \* number of plugin loads so far
    loadedData,     \* what loadData returned at the last load
    mergedSettings, \* Settings right after deepAssign at the last load
    applied         \* the loads at which applyWebOptimizedDefaults ran

settingsVars == <<Settings, pluginData, loads, loadedData, mergedSettings, applied>>

VARIABLES
    vaultFiles,     \* app.vault.getFiles(): the paths of the vault's files, in order
    exportPaths,    \* the paths handed to the last selection
    selected,       \* the file paths the last selection returned
    selectedBy      \* the operation that made the last selection, or "none"

selectionVars == <<vaultFiles, exportPaths, selected, selectedBy>>

vars == <<exportVars, dockerVars, configVars, loggerVars, indexVars, settingsVars,
          selectionVars>>

\* What an action of one component leaves alone.
outsideExport == <<dockerVars, configVars, loggerVars, indexVars, settingsVars, selectionVars>>
outsideDocker == <<exportVars, configVars, loggerVars, indexVars, settingsVars, selectionVars>>
outsideIndex == <<exportVars, dockerVars, configVars, loggerVars, settingsVars, selectionVars>>
outsideSettings == <<exportVars, dockerVars, configVars, loggerVars, indexVars, selectionVars>>
outsideSelection == <<exportVars, dockerVars, configVars, loggerVars, indexVars, settingsVars>>
outsideConfig == <<exportVars, loggerVars, indexVars, settingsVars, selectionVars, dpc, env, dvault, entry, options, operationId,
                   error, exportCalled, dresult, exitCode, run>>
outsideLogger == <<exportVars, configVars, indexVars, settingsVars, selectionVars, dpc, env, dvault, entry, options, operationId,
                   error, exportCalled, dresult, exitCode, run>>

\* ---------------------------------------------------------------- bounds
MaxPaths == 2
MaxFiles == 1
MaxDeleted == 2
MaxOps == 2
MaxCalls == 3
MaxRuns == 2
MaxLoads == 3

\* ------------------------------------------------------------- universes
NoWebsite == [built |-> FALSE]
NoError == <<>>

\* Underlying I/O error messages a collaborator can raise.
IOErrors == {"EIO", "ENOSPC"}

\* Output paths of a previous export: base name and extension (without dot).
OldPaths ==
    { [base |-> "old", extension |-> "html"],
      [base |-> "img", extension |-> "png"],
      [base |-> "inter", extension |-> "woff"],
      [base |-> "Mono", extension |-> "TTF"],
      [base |-> "icons", extension |-> "Woff2"],
      [base |-> "serif", extension |-> "otf"] }

\* Files of the current run: pages are Webpage instances, the rest are assets.
PageNew == [path |-> "index.html", isWebpage |-> TRUE]
AssetNew == [path |-> "photo.png", isWebpage |-> FALSE]
PageUpdated == [path |-> "note.html", isWebpage |-> TRUE]
AssetUpdated == [path |-> "style.css", isWebpage |-> FALSE]

WebsiteData == [path |-> "metadata.json", isWebpage |-> FALSE]
IndexData == [path |-> "search-index.json", isWebpage |-> FALSE]

\* String.prototype.toLowerCase on the extensions and boolean words that occur.
ToLowerCase(s) ==
    CASE s = "TTF" -> "ttf"
      [] s = "TRUE" -> "true"
      [] s = "Yes" -> "yes"
      [] s = "False" -> "false"
      [] s = "NO" -> "no"
      [] s = "Woff2" -> "woff2"
      [] s = "WOFF" -> "woff"
      [] s = "OTF" -> "otf"
      [] OTHER -> s

Range(s) == { s[i] : i \in 1..Len(s) }

\* Sequences without repetition over S, of length at most n.
RECURSIVE DistinctSeqs(_, _)
DistinctSeqs(S, n) ==
    IF n = 0 THEN { <<>> }
    ELSE LET shorter == DistinctSeqs(S, n - 1)
         IN shorter \cup { Append(q[1], q[2]) :
                             q \in { r \in shorter \X S : r[2] \notin Range(r[1]) } }

\* ------------------------------------------------- WebExportManager model

\* Path.extension of a deleted entry resolved against the destination.
Extension(filePath) == filePath.extension

FontExtensions == { "woff", "woff2", "ttf", "otf" }

IsFontFileIgnoringCase(filePath) == Extension(filePath) \in FontExtensions

isFontFile(filePath) == ToLowerCase(Extension(filePath)) \in FontExtensions

Destinations ==
    [ isAbsolute : BOOLEAN, isDirectory : BOOLEAN, createError : { "none", "EACCES" } ]

Vaults == [ obsidian : BOOLEAN, appJson : BOOLEAN ]

\* The (newFiles, updatedFiles) pairs a build can report.
FileSets ==
    { << <<>>, <<>> >>,
      << <<PageNew>>, <<>> >>,
      << <<AssetNew>>, <<PageUpdated>> >>,
      << <<PageNew>>, <<AssetUpdated>> >>,
      << <<>>, <<PageUpdated, AssetUpdated>> >>,
      << <<PageNew, AssetNew>>, <<PageUpdated, AssetUpdated>> >> }

Websites ==
    { [ built |-> TRUE, newFiles |-> fs[1], updatedFiles |-> fs[2], deletedFiles |-> del ] :
        fs \in FileSets, del \in DistinctSeqs(OldPaths, MaxDeleted) }

Entry(kind, text) == [ kind |-> kind, text |-> text ]

\* validateVaultStructure: the .obsidian check, and the app.json warning.
validateVaultStructure(v) ==
    IF ~v.obsidian
    THEN [ isValid |-> FALSE,
           error |-> <<"Invalid vault: .obsidian directory not found">>,
           logs |-> <<>> ]
    ELSE [ isValid |-> TRUE,
           error |-> <<>>,
           logs |-> IF v.appJson THEN <<>>
                    ELSE << Entry("log", <<"Warning: app.json not found">>) >> ]

validateExportInputsNoFileCheck(f, dest, exists, v) ==
    LET invalid(msg, ex) == [ isValid |-> FALSE, error |-> msg, destExists |-> ex, logs |-> <<>> ]
        vv == validateVaultStructure(v)
    IN  IF ~dest.isAbsolute THEN invalid(<<"Export path must be absolute">>, exists)
        ELSE IF ~dest.isDirectory THEN invalid(<<"Export path must be a directory">>, exists)
        ELSE IF ~exists /\ dest.createError # "none"
        THEN invalid(<<"Cannot create export directory: ", dest.createError>>, exists)
        ELSE IF ~vv.isValid THEN invalid(vv.error, TRUE)
        ELSE [ isValid |-> TRUE, error |-> <<>>, destExists |-> TRUE, logs |-> vv.logs ]

\* validateExportInputs: the result, the state of the destination directory
\* afterwards (createDirectory runs before the vault check), and the log lines.
validateExportInputs(f, dest, exists, v) ==
    LET invalid(msg, ex) == [ isValid |-> FALSE, error |-> msg, destExists |-> ex, logs |-> <<>> ]
        vv == validateVaultStructure(v)
    IN  IF f = 0 THEN invalid(<<"No files selected for export">>, exists)
        ELSE IF ~dest.isAbsolute THEN invalid(<<"Export path must be absolute">>, exists)
        ELSE IF ~dest.isDirectory THEN invalid(<<"Export path must be a directory">>, exists)
        ELSE IF ~exists /\ dest.createError # "none"
        THEN invalid(<<"Cannot create export directory: ", dest.createError>>, exists)
        ELSE IF ~vv.isValid THEN invalid(vv.error, TRUE)
        ELSE [ isValid |-> TRUE, error |-> <<>>, destExists |-> TRUE, logs |-> vv.logs ]

IsAsset(f) == ~f.isWebpage

assetFilesNewOnly(w) == SelectSeq(w.newFiles, IsAsset)

\* The asset list built at the top of saveWebsiteFiles.
assetFiles(w) == SelectSeq(w.newFiles, IsAsset) \o SelectSeq(w.updatedFiles, IsAsset)

websiteDataFiles == << WebsiteData, IndexData >>

ExportInit ==
    /\ pc = "idle"
    /\ files = 0
    /\ destination = [ isAbsolute |-> TRUE, isDirectory |-> TRUE, createError |-> "none" ]
    /\ vault = [ obsidian |-> TRUE, appJson |-> TRUE ]
    /\ saveFiles = TRUE
    /\ deleteOld = TRUE
    /\ destExists = FALSE
    /\ disk = {}
    /\ fsBefore = [ destExists |-> FALSE, disk |-> {}, written |-> <<>> ]
    /\ website = NoWebsite
    /\ cursor = 0
    /\ calls = <<>>
    /\ deleteAttempts = <<>>
    /\ written = <<>>
    /\ notices = <<>>
    /\ exportLog = <<>>
    /\ thrown = NoError
    /\ result = "pending"

\* A caller invokes exportFiles(files, destination, saveFiles, deleteOld).
ExportFiles ==
    /\ UNCHANGED outsideExport
    /\ pc = "idle"
    /\ \E f \in 0..MaxFiles, dest \in Destinations, ex \in BOOLEAN, v \in Vaults,
          sf \in BOOLEAN, dl \in BOOLEAN :
        /\ files' = f
        /\ destination' = dest
        /\ vault' = v
        /\ saveFiles' = sf
        /\ deleteOld' = dl
        /\ destExists' = ex
        /\ disk' = IF ex THEN OldPaths ELSE {}
        /\ fsBefore' = [ destExists |-> ex, disk |-> IF ex THEN OldPaths ELSE {},
                         written |-> <<>> ]
    /\ pc' = "validate"
    /\ UNCHANGED <<website, cursor, calls, deleteAttempts, written, notices,
                   exportLog, thrown, result>>

\* Lines 29-37: validateExportInputs, the failure return, beginBatch.
Validate ==
    /\ UNCHANGED outsideExport
    /\ pc = "validate"
    /\ LET r == validateExportInputs(files, destination, destExists, vault)
       IN  /\ destExists' = r.destExists
           /\ IF r.isValid
              THEN /\ calls' = Append(calls, "beginBatch")
                   /\ exportLog' = exportLog \o r.logs
                                     \o << Entry("log", <<"Starting web-optimized export...">>) >>
                   /\ pc' = "build"
                   /\ UNCHANGED <<notices, result>>
              ELSE /\ notices' = Append(notices, <<"Export validation failed: ">> \o r.error)
                   /\ exportLog' = Append(exportLog, Entry("error", r.error))
                   /\ result' = "undefined"
                   /\ pc' = "returned"
                   /\ UNCHANGED calls
    /\ UNCHANGED <<files, destination, vault, saveFiles, deleteOld, disk, fsBefore,
                   website, cursor, deleteAttempts, written, thrown>>

\* Line 44: new Website(destination).load(files).build() returns a website.
BuildReturns ==
    /\ UNCHANGED outsideExport
    /\ pc = "build"
    /\ \E w \in Websites : website' = w
    /\ calls' = Append(calls, "build")
    /\ pc' = "cleanup"
    /\ UNCHANGED <<files, destination, vault, saveFiles, deleteOld, destExists, disk,
                   fsBefore, cursor, deleteAttempts, written, notices, exportLog,
                   thrown, result>>

BuildCancelledAsFailure ==
    /\ UNCHANGED outsideExport
    /\ pc = "build"
    /\ calls' = Append(calls, "build")
    /\ notices' = Append(notices, <<"Export Failed: ", "cancelled">>)
    /\ exportLog' = Append(exportLog, Entry("error", <<"cancelled">>))
    /\ result' = "undefined"
    /\ pc' = "finally"
    /\ UNCHANGED <<files, destination, vault, saveFiles, deleteOld, destExists, disk,
                   fsBefore, website, cursor, deleteAttempts, written, thrown>>

\* Lines 46-49: build() returns undefined, the export was cancelled.
BuildCancelled ==
    /\ UNCHANGED outsideExport
    /\ pc = "build"
    /\ calls' = Append(calls, "build")
    /\ notices' = Append(notices, <<"Export Cancelled">>)
    /\ result' = "undefined"
    /\ pc' = "finally"
    /\ UNCHANGED <<files, destination, vault, saveFiles, deleteOld, destExists, disk,
                   fsBefore, website, cursor, deleteAttempts, written, exportLog, thrown>>

\* Line 44: load() or build() throws.
BuildThrows ==
    /\ UNCHANGED outsideExport
    /\ pc = "build"
    /\ calls' = Append(calls, "build")
    /\ \E e \in IOErrors : thrown' = <<e>>
    /\ pc' = "catch"
    /\ UNCHANGED <<files, destination, vault, saveFiles, deleteOld, destExists, disk,
                   fsBefore, website, cursor, deleteAttempts, written, notices,
                   exportLog, result>>

\* Lines 51-54 and 167-171: cleanupOldFiles is entered when deleteOld is set and
\* returns at once when the index lists no deleted file.
Cleanup ==
    /\ UNCHANGED outsideExport
    /\ pc = "cleanup"
    /\ IF deleteOld
       THEN /\ calls' = Append(calls, "cleanupOldFiles")
            /\ IF Len(website.deletedFiles) = 0
               THEN pc' = "save" /\ cursor' = cursor
               ELSE pc' = "deleting" /\ cursor' = 1
       ELSE /\ pc' = "save"
            /\ UNCHANGED <<calls, cursor>>
    /\ UNCHANGED <<files, destination, vault, saveFiles, deleteOld, destExists, disk,
                   fsBefore, website, deleteAttempts, written, notices, exportLog,
                   thrown, result>>

\* Lines 173-188: one iteration of the loop over website.index.deletedFiles.
\* delete() either removes the file or throws, which is logged as a warning.
DeleteStep ==
    /\ UNCHANGED outsideExport
    /\ pc = "deleting"
    /\ cursor <= Len(website.deletedFiles)
    /\ LET filePath == website.deletedFiles[cursor]
       IN  IF isFontFile(filePath)
           THEN /\ exportLog' = Append(exportLog, Entry("progress", <<"Skipping: ", filePath.base>>))
                /\ UNCHANGED <<deleteAttempts, disk>>
           ELSE /\ deleteAttempts' = Append(deleteAttempts, filePath)
                /\ \/ /\ disk' = disk \ { filePath }
                      /\ exportLog' = Append(exportLog,
                                             Entry("progress", <<"Deleting: ", filePath.base>>))
                   \/ /\ exportLog' = Append(exportLog,
                               Entry("log", <<"Warning: Could not delete file ", filePath.base>>))
                      /\ UNCHANGED disk
    /\ cursor' = cursor + 1
    /\ pc' = IF cursor = Len(website.deletedFiles) THEN "sweep" ELSE "deleting"
    /\ UNCHANGED <<files, destination, vault, saveFiles, deleteOld, destExists,
                   fsBefore, website, calls, written, notices, thrown, result>>

SweepAborting ==
    /\ UNCHANGED outsideExport
    /\ pc = "sweep"
    /\ calls' = Append(calls, "removeEmptyDirectories")
    /\ \/ /\ pc' = "save"
          /\ UNCHANGED thrown
       \/ /\ \E e \in IOErrors : thrown' = <<e>>
          /\ pc' = "catch"
    /\ UNCHANGED <<files, destination, vault, saveFiles, deleteOld, destExists, disk,
                   fsBefore, website, cursor, deleteAttempts, written, notices,
                   exportLog, result>>

\* Lines 190-195: Path.removeEmptyDirectories, failure logged as a warning.
Sweep ==
    /\ UNCHANGED outsideExport
    /\ pc = "sweep"
    /\ calls' = Append(calls, "removeEmptyDirectories")
    /\ \/ UNCHANGED exportLog
       \/ exportLog' = Append(exportLog,
                Entry("log", <<"Warning: Could not remove empty directories: ">>))
    /\ pc' = "save"
    /\ UNCHANGED <<files, destination, vault, saveFiles, deleteOld, destExists, disk,
                   fsBefore, website, cursor, deleteAttempts, written, notices,
                   thrown, result>>

\* Lines 57-59 with saveFiles = false: the save step is skipped.
SkipSave ==
    /\ UNCHANGED outsideExport
    /\ pc = "save"
    /\ ~saveFiles
    /\ pc' = "complete"
    /\ UNCHANGED <<files, destination, vault, saveFiles, deleteOld, destExists, disk,
                   fsBefore, website, cursor, calls, deleteAttempts, written, notices,
                   exportLog, thrown, result>>

\* Lines 213-222: the asset list is downloaded when it is not empty; the call
\* persists every file, or throws after persisting a proper prefix.
SaveAssets ==
    /\ UNCHANGED outsideExport
    /\ pc = "save"
    /\ saveFiles
    /\ LET assets == assetFiles(website)
       IN  IF Len(assets) = 0
           THEN /\ pc' = "savedata"
                /\ calls' = Append(calls, "saveWebsiteFiles")
                /\ UNCHANGED <<written, thrown>>
           ELSE /\ calls' = calls \o <<"saveWebsiteFiles", "downloadAttachments">>
                /\ \/ /\ written' = written \o assets
                      /\ pc' = "savedata"
                      /\ UNCHANGED thrown
                   \/ \E k \in 0..(Len(assets) - 1), e \in IOErrors :
                        /\ written' = written \o SubSeq(assets, 1, k)
                        /\ thrown' = <<"Failed to save website files: ", e>>
                        /\ pc' = "catch"
    /\ UNCHANGED <<files, destination, vault, saveFiles, deleteOld, destExists, disk,
                   fsBefore, website, cursor, deleteAttempts, notices, exportLog, result>>

\* Lines 224-236: the two manifest attachments are downloaded; the call
\* persists both, or throws after persisting a proper prefix.
SaveData ==
    /\ UNCHANGED outsideExport
    /\ pc = "savedata"
    /\ calls' = Append(calls, "downloadAttachments")
    /\ \/ /\ written' = written \o websiteDataFiles
          /\ exportLog' = Append(exportLog,
                Entry("log", <<"Saved asset files and website data">>))
          /\ pc' = "complete"
          /\ UNCHANGED thrown
       \/ \E k \in 0..(Len(websiteDataFiles) - 1), e \in IOErrors :
            /\ written' = written \o SubSeq(websiteDataFiles, 1, k)
            /\ thrown' = <<"Failed to save website files: ", e>>
            /\ pc' = "catch"
            /\ UNCHANGED exportLog
    /\ UNCHANGED <<files, destination, vault, saveFiles, deleteOld, destExists, disk,
                   fsBefore, website, cursor, deleteAttempts, notices, result>>

\* Line 61: the try block ran to its end.
Complete ==
    /\ UNCHANGED outsideExport
    /\ pc = "complete"
    /\ exportLog' = Append(exportLog, Entry("log", <<"Web export completed successfully">>))
    /\ result' = "website"
    /\ pc' = "finally"
    /\ UNCHANGED <<files, destination, vault, saveFiles, deleteOld, destExists, disk,
                   fsBefore, website, cursor, calls, deleteAttempts, written, notices,
                   thrown>>

CatchRollingBack ==
    /\ UNCHANGED outsideExport
    /\ pc = "catch"
    /\ notices' = Append(notices, <<"Export Failed: ">> \o thrown)
    /\ exportLog' = Append(exportLog, Entry("error", thrown))
    /\ result' = "undefined"
    /\ pc' = "finally"
    /\ disk' = fsBefore.disk
    /\ written' = <<>>
    /\ UNCHANGED <<files, destination, vault, saveFiles, deleteOld, destExists,
                   fsBefore, website, cursor, calls, deleteAttempts, thrown>>

\* Lines 63-67: the catch block of exportFiles.
Catch ==
    /\ UNCHANGED outsideExport
    /\ pc = "catch"
    /\ notices' = Append(notices, <<"Export Failed: ">> \o thrown)
    /\ exportLog' = Append(exportLog, Entry("error", thrown))
    /\ result' = "undefined"
    /\ pc' = "finally"
    /\ UNCHANGED <<files, destination, vault, saveFiles, deleteOld, destExists, disk,
                   fsBefore, website, cursor, calls, deleteAttempts, written, thrown>>

FinallyWithoutEndBatch ==
    /\ UNCHANGED outsideExport
    /\ pc = "finally"
    /\ pc' = "returned"
    /\ UNCHANGED <<files, destination, vault, saveFiles, deleteOld, destExists, disk,
                   fsBefore, website, cursor, calls, deleteAttempts, written, notices,
                   exportLog, thrown, result>>

\* Lines 68-72: the finally block, then the return.
Finally ==
    /\ UNCHANGED outsideExport
    /\ pc = "finally"
    /\ calls' = Append(calls, "endBatch")
    /\ pc' = "returned"
    /\ UNCHANGED <<files, destination, vault, saveFiles, deleteOld, destExists, disk,
                   fsBefore, website, cursor, deleteAttempts, written, notices,
                   exportLog, thrown, result>>

ExportNext ==
    \/ ExportFiles
    \/ Validate
    \/ BuildReturns
    \/ BuildCancelled
    \/ BuildThrows
    \/ Cleanup
    \/ DeleteStep
    \/ Sweep
    \/ SkipSave
    \/ SaveAssets
    \/ SaveData
    \/ Complete
    \/ Catch
    \/ Finally

\* ------------------------------------------------------ ExportIndex model

\* Paths of the destination tree that a manifest can name.
IndexPaths ==
    { [base |-> "old", extension |-> "html"],
      [base |-> "img", extension |-> "png"],
      [base |-> "inter", extension |-> "woff"],
      [base |-> "Mono", extension |-> "TTF"] }

\* Metadata recorded for a path: content hash ("none" when not recorded) and
\* modification time; Absent marks a path the manifest does not name.
Absent == [hash |-> "absent", mtime |-> 0]
PreviousMeta == { [hash |-> "h1", mtime |-> 1], [hash |-> "none", mtime |-> 1] }
CurrentMeta ==
    { [hash |-> "h1", mtime |-> 1], [hash |-> "h1", mtime |-> 2],
      [hash |-> "h2", mtime |-> 2], [hash |-> "none", mtime |-> 2] }

Keys(manifest) == { p \in DOMAIN manifest : manifest[p] # Absent }

\* The content hash decides when both sides recorded one, the modification
\* time otherwise.
Differs(a, b) ==
    IF a.hash # "none" /\ b.hash # "none" THEN a.hash # b.hash ELSE a.mtime # b.mtime

NoIndex ==
    [ computed |-> FALSE, newFiles |-> {}, updatedFiles |-> {}, unchangedFiles |-> {},
      deletedFiles |-> {}, skippedProtected |-> {} ]

diffKeepingProtected(previous, current) ==
    LET both == Keys(previous) \cap Keys(current)
    IN  [ computed |-> TRUE,
          newFiles |-> Keys(current) \ Keys(previous),
          updatedFiles |-> { p \in both : Differs(previous[p], current[p]) },
          unchangedFiles |-> { p \in both : ~Differs(previous[p], current[p]) },
          deletedFiles |-> Keys(previous) \ Keys(current),
          skippedProtected |-> {} ]

\* diff(previousManifest, currentFileSet): the derived sets of the export index.
diff(previous, current) ==
    LET both == Keys(previous) \cap Keys(current)
        gone == Keys(previous) \ Keys(current)
    IN  [ computed |-> TRUE,
          newFiles |-> Keys(current) \ Keys(previous),
          updatedFiles |-> { p \in both : Differs(previous[p], current[p]) },
          unchangedFiles |-> { p \in both : ~Differs(previous[p], current[p]) },
          deletedFiles |-> { p \in gone : ~isFontFile(p) },
          skippedProtected |-> { p \in gone : isFontFile(p) } ]

\* ---------------------------------------------------- VaultValidator model

\* Thresholds of validateContent, validatePerformance and checkForLargeFiles.
AssetsLimit == 1000
AttachmentLimit == 500
MarkdownLimit == 5000
VaultSizeLimitMB == 1000
DepthLimit == 10

AttachmentDirs == << "attachments", "files", "images", "media" >>
ProblematicPlugins == << "obsidian-git", "obsidian-sync" >>

\* existsSync on the paths the validator builds with join().
RootIsDir(v) == v.root = "dir"
ObsidianExists(v) == RootIsDir(v) /\ v.obsidian # "missing"
ObsidianIsDir(v) == RootIsDir(v) /\ v.obsidian = "dir"
ConfigFile(v, name) == IF ObsidianIsDir(v) THEN v.config[name] ELSE "missing"
PluginsDirExists(v) == ObsidianIsDir(v) /\ v.pluginsDir

NoFindings == [ errors |-> <<>>, warnings |-> <<>>, suggestions |-> <<>> ]

ValidationError(code, message) ==
    [ code |-> code, message |-> message, severity |-> "error" ]

ValidationWarning(code, message, suggestion) ==
    [ code |-> code, message |-> message, suggestion |-> suggestion ]

PushError(acc, code, message) ==
    [ acc EXCEPT !.errors = Append(@, ValidationError(code, message)) ]

PushWarning(acc, code, message, suggestion) ==
    [ acc EXCEPT !.warnings = Append(@, ValidationWarning(code, message, suggestion)) ]

validateBasicStructureFallingThrough(acc, v) ==
    IF v.root = "missing"
    THEN PushError(acc, "VAULT_NOT_FOUND", <<"Vault directory not found">>)
    ELSE IF v.root # "dir"
    THEN PushError(acc, "VAULT_NOT_DIRECTORY", <<"Vault path is not a directory">>)
    ELSE LET a1 == IF ~ObsidianExists(v)
                   THEN PushError(acc, "OBSIDIAN_CONFIG_MISSING",
                                  <<"Missing .obsidian configuration directory">>)
                   ELSE acc
         IN  IF ~ObsidianIsDir(v)
             THEN PushError(a1, "OBSIDIAN_CONFIG_NOT_DIRECTORY",
                            <<".obsidian exists but is not a directory">>)
             ELSE a1

\* validateBasicStructure: the first failing check pushes one error and returns.
validateBasicStructure(acc, v) ==
    IF v.root = "missing"
    THEN PushError(acc, "VAULT_NOT_FOUND", <<"Vault directory not found">>)
    ELSE IF v.root # "dir"
    THEN PushError(acc, "VAULT_NOT_DIRECTORY", <<"Vault path is not a directory">>)
    ELSE IF ~ObsidianExists(v)
    THEN PushError(acc, "OBSIDIAN_CONFIG_MISSING",
                   <<"Missing .obsidian configuration directory">>)
    ELSE IF ~ObsidianIsDir(v)
    THEN PushError(acc, "OBSIDIAN_CONFIG_NOT_DIRECTORY",
                   <<".obsidian exists but is not a directory">>)
    ELSE acc

validateJsonFileAsWarning(acc, state, fileName) ==
    IF state = "invalid"
    THEN PushWarning(acc, "INVALID_JSON", <<"Invalid JSON in ", fileName>>, "")
    ELSE acc

\* validateJsonFile, for a file that exists: a parse failure is an error.
validateJsonFile(acc, state, fileName) ==
    IF state = "invalid"
    THEN PushError(acc, "INVALID_JSON", <<"Invalid JSON in ", fileName>>)
    ELSE acc

validateObsidianConfig(acc, v) ==
    IF ~ObsidianExists(v) THEN acc
    ELSE
    LET app == ConfigFile(v, "app.json")
        workspace == ConfigFile(v, "workspace.json")
        community == ConfigFile(v, "community-plugins.json")
        core == ConfigFile(v, "core-plugins.json")
        a1 == IF app = "missing"
              THEN PushWarning(acc, "APP_JSON_MISSING", <<"app.json not found">>,
                               "Open the vault in Obsidian to generate the configuration file.")
              ELSE validateJsonFile(acc, app, "app.json")
        a2 == IF workspace = "missing"
              THEN PushWarning(a1, "WORKSPACE_JSON_MISSING", <<"workspace.json not found">>,
                               "Open the vault in Obsidian to generate workspace configuration.")
              ELSE validateJsonFile(a1, workspace, "workspace.json")
        a3 == IF community # "missing"
              THEN LET j == validateJsonFile(a2, community, "community-plugins.json")
                   IN  IF ~PluginsDirExists(v)
                       THEN PushWarning(j, "PLUGINS_DIRECTORY_MISSING",
                                <<"Community plugins are configured but plugins directory is missing.">>,
                                "Install community plugins or disable them in Obsidian settings.")
                       ELSE j
              ELSE a2
        a4 == IF core # "missing"
              THEN validateJsonFile(a3, core, "core-plugins.json")
              ELSE a3
    IN  a4

RECURSIVE ProblematicPluginWarnings(_, _, _)
ProblematicPluginWarnings(acc, v, i) ==
    IF i > Len(ProblematicPlugins) THEN acc
    ELSE ProblematicPluginWarnings(
            IF ProblematicPlugins[i] \in v.plugins
            THEN PushWarning(acc, "POTENTIALLY_PROBLEMATIC_PLUGIN",
                             <<"Plugin detected: ", ProblematicPlugins[i]>>,
                             "Consider disabling this plugin for Docker exports")
            ELSE acc,
            v, i + 1)

validatePluginConfig(acc, v) ==
    IF ~PluginsDirExists(v) THEN acc
    ELSE LET a1 == IF v.htmlExportData # "missing"
                   THEN validateJsonFile(acc, v.htmlExportData, "HTML Export plugin data.json")
                   ELSE acc
         IN  ProblematicPluginWarnings(a1, v, 1)

\* countFilesWithExtension('.md'): 0 unless the root is a directory.
countMarkdownFiles(v) == IF RootIsDir(v) THEN v.markdownCount ELSE 0

RECURSIVE AttachmentWarnings(_, _, _)
AttachmentWarnings(acc, v, i) ==
    IF i > Len(AttachmentDirs) THEN acc
    ELSE AttachmentWarnings(
            IF RootIsDir(v) /\ v.attachments[AttachmentDirs[i]] > AttachmentLimit
            THEN PushWarning(acc, "LARGE_ATTACHMENT_DIRECTORY",
                             <<"Large attachment directory detected: ", AttachmentDirs[i]>>,
                             "Consider organizing attachments or using exclude patterns for unused files.")
            ELSE acc,
            v, i + 1)

RECURSIVE LargeFileSuggestions(_)
LargeFileSuggestions(n) ==
    IF n = 0 THEN <<>> ELSE Append(LargeFileSuggestions(n - 1), <<"Large file: ", ToString(n)>>)

checkForLargeFiles(acc, v) ==
    LET n == IF RootIsDir(v) THEN v.largeFiles ELSE 0
    IN  IF n > 0
        THEN [ PushWarning(acc, "LARGE_FILES_DETECTED", <<"Large files detected">>,
                           "Consider excluding large files from export or optimizing them for web delivery.")
               EXCEPT !.suggestions = @ \o LargeFileSuggestions(n) ]
        ELSE acc

validateContent(acc, v) ==
    LET a1 == IF ~(countMarkdownFiles(v) > 0)
              THEN PushWarning(acc, "NO_MARKDOWN_FILES", <<"No markdown files found in the vault.">>,
                               "Ensure the vault contains .md files to export.")
              ELSE acc
        a2 == IF RootIsDir(v) /\ v.assetsCount > AssetsLimit
              THEN PushWarning(a1, "LARGE_ASSETS_DIRECTORY", <<"Large number of assets detected">>,
                               "Consider optimizing or organizing assets to improve export performance.")
              ELSE a1
        a3 == AttachmentWarnings(a2, v, 1)
    IN  checkForLargeFiles(a3, v)

validatePerformance(acc, v) ==
    LET a1 == IF countMarkdownFiles(v) > MarkdownLimit
              THEN PushWarning(acc, "LARGE_VAULT_SIZE", <<"Large vault detected">>,
                               "Consider using exclude patterns to limit the scope of the export or enable incremental exports.")
              ELSE acc
        a2 == IF RootIsDir(v) /\ v.sizeMB > VaultSizeLimitMB
              THEN PushWarning(a1, "LARGE_VAULT_DISK_SIZE", <<"Large vault size detected">>,
                               "Consider excluding large files or directories that are not needed for the web export.")
              ELSE a1
        a3 == IF RootIsDir(v) /\ v.maxDepth > DepthLimit
              THEN PushWarning(a2, "DEEP_DIRECTORY_STRUCTURE", <<"Deep directory structure detected">>,
                               "Consider flattening the directory structure for better web navigation.")
              ELSE a2
    IN  a3

IsError(e) == e.severity = "error"

isValidFromAllFindings(acc) ==
    Len(SelectSeq(acc.errors, IsError)) = 0 /\ Len(acc.warnings) = 0

\* Line 62: validity is computed from the error list alone.
isValidFrom(acc) == Len(SelectSeq(acc.errors, IsError)) = 0

\* validateVault: the five checks in order, then the verdict.
validateVault(v) ==
    LET a1 == validateBasicStructure(NoFindings, v)
        a2 == validateObsidianConfig(a1, v)
        a3 == validatePluginConfig(a2, v)
        a4 == validateContent(a3, v)
        a5 == validatePerformance(a4, v)
    IN  [ isValid |-> isValidFrom(a5),
          errors |-> a5.errors,
          warnings |-> a5.warnings,
          suggestions |-> a5.suggestions ]

\* ------------------------------------------------------ DockerLogger model

\* enum LogLevel
DEBUG == 0
INFO == 1
WARN == 2
ERROR == 3

LevelName(level) ==
    CASE level = DEBUG -> "DEBUG"
      [] level = INFO -> "INFO"
      [] level = WARN -> "WARN"
      [] level = ERROR -> "ERROR"

\* String.prototype.toUpperCase on the LOG_LEVEL values that occur.
ToUpperCase(s) ==
    CASE s = "debug" -> "DEBUG"
      [] s = "info" -> "INFO"
      [] s = "warn" -> "WARN"
      [] s = "Error" -> "ERROR"
      [] s = "verbose" -> "VERBOSE"
      [] OTHER -> s

\* A JavaScript string from process.env is falsy when unset or empty.
Falsy(value) == value \in { "undefined", "" }

parseLogLevel(level) ==
    LET u == ToUpperCase(level)
    IN  CASE u = "DEBUG" -> DEBUG
          [] u = "INFO" -> INFO
          [] u = "WARN" -> WARN
          [] u = "ERROR" -> ERROR
          [] OTHER -> INFO

CIVariables == { "CI", "GITHUB_ACTIONS", "GITLAB_CI", "JENKINS_URL", "BUILDKITE", "CIRCLECI" }

detectCIEnvironmentOnlyCI(e) == ~Falsy(e["CI"])

detectCIEnvironment(e) == \E name \in CIVariables : ~Falsy(e[name])

\* The private constructor, run by the first getInstance().
NewDockerLogger(e) ==
    [ logLevel |-> parseLogLevel(IF Falsy(e["LOG_LEVEL"]) THEN "INFO" ELSE e["LOG_LEVEL"]),
      isCI |-> detectCIEnvironment(e),
      logEntries |-> <<>>,
      out |-> <<>> ]

NoContext == [ operationId |-> -1, troubleshooting |-> "none" ]
NoException == [ code |-> "none", message |-> <<>> ]

LogEntry(level, message, context, err, kind) ==
    [ level |-> level, message |-> message, context |-> context, error |-> err,
      kind |-> kind ]

Printed(stream, kind, text) == [ stream |-> stream, kind |-> kind, text |-> text ]

\* outputLog: the line on the stream of its level, the stack and the context in
\* debug mode, the machine-readable line in CI mode for WARN and above.
outputLog(L, e) ==
    << Printed(IF e.level = ERROR THEN "error" ELSE IF e.level = WARN THEN "warn" ELSE "log",
               "line", <<LevelName(e.level)>> \o e.message) >>
    \o (IF e.level = ERROR /\ e.error # NoException /\ L.logLevel <= DEBUG
        THEN << Printed("error", "stack", e.error.message) >> ELSE <<>>)
    \o (IF e.context # NoContext /\ L.logLevel <= DEBUG
        THEN << Printed("log", "context", e.message) >> ELSE <<>>)
    \o (IF L.isCI /\ e.level >= WARN
        THEN << Printed("log", "ci-json", <<LevelName(e.level)>> \o e.message) >> ELSE <<>>)

logIgnoringLevel(L, level, message, context, err, kind) ==
    LET e == LogEntry(level, message, context, err, kind)
    IN  [ L EXCEPT !.logEntries = Append(@, e), !.out = @ \o outputLog(L, e) ]

\* log: entries below the minimum level are dropped, the others are stored and
\* printed.
log(L, level, message, context, err, kind) ==
    IF level < L.logLevel THEN L
    ELSE LET e == LogEntry(level, message, context, err, kind)
         IN  [ L EXCEPT !.logEntries = Append(@, e), !.out = @ \o outputLog(L, e) ]

debug(L, message, context) == log(L, DEBUG, message, context, NoException, "plain")
info(L, message, context) == log(L, INFO, message, context, NoException, "plain")
warn(L, message, context) == log(L, WARN, message, context, NoException, "plain")
logError(L, message, err, context) == log(L, ERROR, message, context, err, "plain")
progress(L, stage) == log(L, INFO, <<stage>>, NoContext, NoException, "progress")

startOperation(L, operation, id) ==
    info(L, <<"Starting: ", operation>>, [ NoContext EXCEPT !.operationId = id ])

endOperation(L, operation, id) ==
    log(L, INFO, <<"Completed: ", operation>>, [ NoContext EXCEPT !.operationId = id ],
        NoException, "duration")

\* errorWithTroubleshooting: the ERROR entry, then the block when in CI.
errorWithTroubleshooting(L, message, troubleshooting, err) ==
    LET L1 == logError(L, message, err, [ NoContext EXCEPT !.troubleshooting = troubleshooting ])
    IN  IF L.isCI
        THEN [ L1 EXCEPT !.out = Append(@, Printed("error", "troubleshooting", <<troubleshooting>>)) ]
        ELSE L1

IsErrorEntry(e) == e.level = ERROR
IsWarnEntry(e) == e.level = WARN

generateSummaryReportWarningsFail(L) ==
    LET errors == SelectSeq(L.logEntries, IsErrorEntry)
        warnings == SelectSeq(L.logEntries, IsWarnEntry)
    IN  [ errors |-> Len(errors), warnings |-> Len(warnings),
          status |-> IF Len(errors) + Len(warnings) = 0 THEN "SUCCESS" ELSE "FAILED" ]

\* generateSummaryReport: the counts and the status line of the report.
generateSummaryReport(L) ==
    LET errors == SelectSeq(L.logEntries, IsErrorEntry)
        warnings == SelectSeq(L.logEntries, IsWarnEntry)
    IN  [ errors |-> Len(errors), warnings |-> Len(warnings),
          status |-> IF Len(errors) = 0 THEN "SUCCESS" ELSE "FAILED" ]

\* exportLogsAsJSON: the summary object that is serialised.
exportLogsAsJSON(L) ==
    [ totalEntries |-> Len(L.logEntries),
      errorCount |-> Len(SelectSeq(L.logEntries, IsErrorEntry)),
      warningCount |-> Len(SelectSeq(L.logEntries, IsWarnEntry)),
      success |-> Len(SelectSeq(L.logEntries, IsErrorEntry)) = 0,
      entries |-> L.logEntries ]

\* console.log(this.logger.generateSummaryReport())
PrintSummary(L) ==
    [ L EXCEPT !.out = Append(@, [ stream |-> "log", kind |-> "summary",
                                   text |-> <<generateSummaryReport(L).status>>,
                                   report |-> generateSummaryReport(L) ]) ]

\* ------------------------------------------------------ configuration model

Sections == { "site", "features", "seo", "advanced" }

DefaultSiteUrl == "https://example.com"

\* DEFAULT_WEB_CONFIG as web-config.ts writes it: the three required site
\* fields, two of the eight feature switches, two seo fields and two advanced
\* switches (one of them off by default).
BuiltInDefaults ==
    [ site |-> [ name |-> "My Digital Garden",
                 description |-> "A collection of interconnected notes and ideas",
                 url |-> DefaultSiteUrl ],
      features |-> [ search |-> TRUE, sidebar |-> TRUE ],
      seo |-> [ googleAnalyticsId |-> "undefined", generateSitemap |-> TRUE ],
      advanced |-> [ slugifyPaths |-> TRUE, offlineResources |-> FALSE ] ]

StringFields == { "name", "description", "url", "googleAnalyticsId" }

\* Reading and writing a property of a section object.
Field(sec, f) == IF f \in DOMAIN sec THEN sec[f] ELSE "undefined"
With(sec, f, v) == [ g \in (DOMAIN sec) \cup { f } |-> IF g = f THEN v ELSE sec[g] ]

\* JSON.parse(JSON.stringify(x)): a fresh object; properties whose value is
\* undefined are dropped by stringify.
JsonCopySection(sec) ==
    [ f \in { g \in DOMAIN sec : ~(g \in StringFields /\ sec[g] = "undefined") } |-> sec[f] ]

DeepCopy(d) ==
    [ site |-> JsonCopySection(d.site), features |-> JsonCopySection(d.features),
      seo |-> JsonCopySection(d.seo), advanced |-> JsonCopySection(d.advanced),
      aliased |-> {} ]

\* String.prototype.trim on the values that occur.
Trim(s) ==
    CASE s = " " -> ""
      [] s = " true " -> "true"
      [] OTHER -> s

\* new URL(s) succeeds: the absolute URLs among the values that occur
\* ("not a url", "example.com" and "/docs" have no scheme and throw).
ParsesAsURL(s) == s \in { "https://example.com", "http://localhost:8080" }

\* /^(G-[A-Z0-9]+|UA-\d+-\d+|GT-[A-Z0-9]+)$/ on the ids that occur
\* ("g-abc123", "UA-12345" and "G-" do not match).
MatchesAnalyticsId(s) == s \in { "G-ABC123", "UA-12345-1", "GT-XYZ9" }

parseBooleanEnvUnknownIsFalse(e, envVar, defaultValue) ==
    LET value == e[envVar]
    IN  IF value = "undefined" THEN [ value |-> defaultValue, warned |-> FALSE ]
        ELSE LET lowerValue == Trim(ToLowerCase(value))
             IN  IF lowerValue \in { "true", "1", "yes" }
                 THEN [ value |-> TRUE, warned |-> FALSE ]
                 ELSE [ value |-> FALSE, warned |-> lowerValue \notin { "false", "0", "no" } ]

\* parseBooleanEnv: the parsed value, or the fallback and a console warning.
parseBooleanEnv(e, envVar, defaultValue) ==
    LET value == e[envVar]
    IN  IF value = "undefined" THEN [ value |-> defaultValue, warned |-> FALSE ]
        ELSE LET lowerValue == Trim(ToLowerCase(value))
             IN  IF lowerValue \in { "true", "1", "yes" }
                 THEN [ value |-> TRUE, warned |-> FALSE ]
                 ELSE IF lowerValue \in { "false", "0", "no" }
                 THEN [ value |-> FALSE, warned |-> FALSE ]
                 ELSE [ value |-> defaultValue, warned |-> TRUE ]

\* The environment variables of the overlay, in the order the loader reads them.
StringEnvUrlIntoName ==
    << [ var |-> "OBSIDIAN_SITE_NAME", section |-> "site", field |-> "name" ],
       [ var |-> "OBSIDIAN_SITE_DESCRIPTION", section |-> "site", field |-> "description" ],
       [ var |-> "OBSIDIAN_SITE_URL", section |-> "site", field |-> "name" ],
       [ var |-> "OBSIDIAN_GOOGLE_ANALYTICS_ID", section |-> "seo", field |-> "googleAnalyticsId" ] >>

StringEnv ==
    << [ var |-> "OBSIDIAN_SITE_NAME", section |-> "site", field |-> "name" ],
       [ var |-> "OBSIDIAN_SITE_DESCRIPTION", section |-> "site", field |-> "description" ],
       [ var |-> "OBSIDIAN_SITE_URL", section |-> "site", field |-> "url" ],
       [ var |-> "OBSIDIAN_GOOGLE_ANALYTICS_ID", section |-> "seo", field |-> "googleAnalyticsId" ] >>

BooleanEnv ==
    << [ var |-> "OBSIDIAN_FEATURE_SEARCH", section |-> "features", field |-> "search" ],
       [ var |-> "OBSIDIAN_FEATURE_SIDEBAR", section |-> "features", field |-> "sidebar" ],
       [ var |-> "OBSIDIAN_GENERATE_SITEMAP", section |-> "seo", field |-> "generateSitemap" ],
       [ var |-> "OBSIDIAN_SLUGIFY_PATHS", section |-> "advanced", field |-> "slugifyPaths" ],
       [ var |-> "OBSIDIAN_OFFLINE_RESOURCES", section |-> "advanced", field |-> "offlineResources" ] >>

\* config.<section>.<field> = v
Assign(c, section, field, v) == [ c EXCEPT ![section] = With(@, field, v) ]

RECURSIVE OverlayStrings(_, _, _)
OverlayStrings(c, e, i) ==
    IF i > Len(StringEnv) THEN c
    ELSE LET m == StringEnv[i]
         IN  OverlayStrings(IF Falsy(e[m.var]) THEN c ELSE Assign(c, m.section, m.field, e[m.var]),
                            e, i + 1)

RECURSIVE OverlayBooleans(_, _, _)
OverlayBooleans(acc, e, i) ==
    IF i > Len(BooleanEnv) THEN acc
    ELSE LET m == BooleanEnv[i]
             b == parseBooleanEnv(e, m.var, acc.config[m.section][m.field])
         IN  OverlayBooleans(
                [ config |-> Assign(acc.config, m.section, m.field, b.value),
                  warnings |-> IF b.warned
                               THEN Append(acc.warnings, <<"Invalid boolean value for ", m.var>>)
                               ELSE acc.warnings ],
                e, i + 1)

\* DockerConfigLoader.loadFromEnvironment: a deep copy of the defaults with the
\* environment laid over it, and the console warnings of parseBooleanEnv.
loadFromEnvironment(defaults, e) ==
    OverlayBooleans([ config |-> OverlayStrings(DeepCopy(defaults), e, 1), warnings |-> <<>> ],
                    e, 1)

\* !s || s.trim() === ''
Blank(s) == Falsy(s) \/ Trim(s) = ""

validateWebConfigNoUrlParse(c) ==
    LET url == Field(c.site, "url")
        id == Field(c.seo, "googleAnalyticsId")
    IN  (IF Blank(Field(c.site, "name")) THEN << <<"Site name is required">> >> ELSE <<>>)
     \o (IF Blank(Field(c.site, "description"))
         THEN << <<"Site description is required">> >> ELSE <<>>)
     \o (IF Blank(url) THEN << <<"Site URL is required">> >> ELSE <<>>)
     \o (IF ~Falsy(id) /\ ~MatchesAnalyticsId(id)
         THEN << <<"Google Analytics ID must be in format G-XXXXXXXXXX, UA-XXXXXXXX-X, or GT-XXXXXXXXXX">> >>
         ELSE <<>>)

\* validateWebConfig: the messages, in the order of the checks.
validateWebConfig(c) ==
    LET url == Field(c.site, "url")
        id == Field(c.seo, "googleAnalyticsId")
    IN  (IF Blank(Field(c.site, "name")) THEN << <<"Site name is required">> >> ELSE <<>>)
     \o (IF Blank(Field(c.site, "description"))
         THEN << <<"Site description is required">> >> ELSE <<>>)
     \o (IF Blank(url) THEN << <<"Site URL is required">> >>
         ELSE IF ~ParsesAsURL(url)
         THEN << <<"Site URL must be a valid URL (e.g., https://example.com)">> >>
         ELSE <<>>)
     \o (IF ~Falsy(id) /\ ~MatchesAnalyticsId(id)
         THEN << <<"Google Analytics ID must be in format G-XXXXXXXXXX, UA-XXXXXXXX-X, or GT-XXXXXXXXXX">> >>
         ELSE <<>>)

\* No configOverrides: an object without properties.
NoOverrides == <<>>

\* Object.assign(config, overrides): every own property of overrides replaces
\* the property of the same name, nested objects included.
ObjectAssign(c, o) ==
    LET taken(s) == IF s \in DOMAIN o THEN o[s] ELSE c[s]
    IN  [ site |-> taken("site"), features |-> taken("features"),
          seo |-> taken("seo"), advanced |-> taken("advanced"),
          aliased |-> c.aliased \ DOMAIN o ]

\* { ...DEFAULT_WEB_CONFIG, ...data.webConfig }: a new object whose sections
\* are those of the stored configuration where it has them and otherwise the
\* very section objects of DEFAULT_WEB_CONFIG.
SpreadOverDefaults(defaults, w) ==
    LET taken(s) == IF s \in DOMAIN w THEN w[s] ELSE defaults[s]
    IN  [ site |-> taken("site"), features |-> taken("features"),
          seo |-> taken("seo"), advanced |-> taken("advanced"),
          aliased |-> Sections \ DOMAIN w ]

\* migrateFromLegacyConfig, for the legacy options siteName, searchOptions,
\* slugifyPaths and offlineResources.
migrateFromLegacyConfig(defaults, legacyConfig) ==
    LET c0 == DeepCopy(defaults)
        c1 == IF ~Falsy(Field(legacyConfig, "siteName"))
              THEN Assign(c0, "site", "name", legacyConfig.siteName) ELSE c0
        c2 == IF "searchOptions" \in DOMAIN legacyConfig
              THEN Assign(c1, "features", "search",
                          IF "enabled" \in DOMAIN legacyConfig.searchOptions
                          THEN legacyConfig.searchOptions.enabled ELSE TRUE)
              ELSE c1
        c3 == IF "slugifyPaths" \in DOMAIN legacyConfig
              THEN Assign(c2, "advanced", "slugifyPaths", legacyConfig.slugifyPaths) ELSE c2
        c4 == IF "offlineResources" \in DOMAIN legacyConfig
              THEN Assign(c3, "advanced", "offlineResources", legacyConfig.offlineResources)
              ELSE c3
    IN  c4

RECURSIVE WarnEach(_, _, _)
WarnEach(L, prefix, messages) ==
    IF messages = <<>> THEN L
    ELSE WarnEach(warn(L, prefix \o Head(messages), NoContext), prefix, Tail(messages))

\* EnhancedDockerIntegration.loadConfiguration: the resolved configuration,
\* its validation messages, and what is logged.
loadConfiguration(L, defaults, e, o) ==
    LET loaded == loadFromEnvironment(defaults, e)
        c == IF DOMAIN o # {} THEN ObjectAssign(loaded.config, o) ELSE loaded.config
        errors == validateWebConfig(c)
        L1 == IF Len(errors) > 0
              THEN WarnEach(warn(L, <<"Configuration validation warnings:">>,
                                 [ NoContext EXCEPT !.troubleshooting = "errors" ]),
                            <<"Config: ">>, errors)
              ELSE L
    IN  [ logger |-> debug(L1, <<"Loaded configuration">>,
                           [ NoContext EXCEPT !.troubleshooting = "config" ]),
          config |-> c,
          errors |-> errors,
          warnings |-> loaded.warnings ]

\* ---------------------------------------------------------- settings model

\* JSON values: scalars (booleans by their literal), arrays of scalars, objects.
Scalar(x) == [t |-> "scalar", v |-> x]
Array(items) == [t |-> "array", v |-> items]
Object(fields) == [t |-> "object", v |-> fields]
Undefined == [t |-> "undefined", v |-> ""]
Null == [t |-> "null", v |-> ""]
EmptyObject == Object([k \in {} |-> Undefined])

\* source[key]
Get(source, key) ==
    IF source.t = "object" /\ key \in DOMAIN source.v THEN source.v[key] ELSE Undefined

\* !value
Not(value) ==
    \/ value.t \in { "undefined", "null" }
    \/ value.t = "scalar" /\ value.v \in { "", "false" }

\* value != undefined
Defined(value) == value.t \notin { "undefined", "null" }

\* The object with a key set, added when it is not there.
Put(object, key, value) ==
    Object([k \in DOMAIN object.v \cup {key} |-> IF k = key THEN value ELSE object.v[k]])

\* class Settings with its static initialisers; of exportOptions the fields
\* the settings code names.
DefaultSettings ==
    Object([ logLevel |-> Scalar("warning"),
             deleteOldFiles |-> Scalar("true"),
             filePickerWhitelist |-> Array(<<"ext">>),
             exportOptions |->
                Object([ slugifyPaths |-> Scalar("true"),
                         siteName |-> Scalar(""),
                         filesToExport |-> Array(<<>>),
                         graphViewOptions |-> Object([ enabled |-> Scalar("true") ]) ]) ])

RECURSIVE deepAssignConcatenating(_, _)
deepAssignConcatenating(truth, source) ==
    IF Not(source) THEN truth
    ELSE Object([ key \in DOMAIN truth.v |->
            LET object == truth.v[key]
                value == Get(source, key)
            IN  IF object.t \in { "object", "array" } /\ Defined(value)
                THEN IF object.t = "array" THEN Array(object.v \o value.v)
                     ELSE deepAssignConcatenating(object, value)
                ELSE IF Defined(value) THEN value
                ELSE object ])

\* deepAssign: truth after the call.
RECURSIVE deepAssign(_, _)
deepAssign(truth, source) ==
    IF Not(source) THEN truth
    ELSE Object([ key \in DOMAIN truth.v |->
            LET object == truth.v[key]
                value == Get(source, key)
            IN  IF object.t \in { "object", "array" } /\ Defined(value)
                THEN IF object.t = "array" THEN value ELSE deepAssign(object, value)
                ELSE IF Defined(value) THEN value
                ELSE object ])

\* deepCopy: JSON.parse(JSON.stringify(truth)) drops the undefined properties.
RECURSIVE deepCopy(_)
deepCopy(truth) ==
    IF truth.t # "object" THEN truth
    ELSE Object([ key \in { k \in DOMAIN truth.v : truth.v[k].t # "undefined" } |->
                    deepCopy(truth.v[key]) ])

\* Keys of the model that start with "info_".
InfoKeys == { "info_lastExportDate" }

\* deepRemoveStartingWith(truth, "info_")
RECURSIVE deepRemoveStartingWith(_)
deepRemoveStartingWith(truth) ==
    IF truth.t # "object" THEN truth
    ELSE Object([ key \in DOMAIN truth.v \ InfoKeys |-> deepRemoveStartingWith(truth.v[key]) ])

\* saveSettings: what is handed to saveData.
saveSettings(settings) == deepRemoveStartingWith(deepCopy(settings))

VaultName == "Vault"

\* applyWebOptimizedDefaults, on the modelled fields.
applyWebOptimizedDefaults(settings) ==
    LET o == settings.v.exportOptions
        o1 == Put(o, "slugifyPaths", Scalar("true"))
        o2 == Put(o1, "graphViewOptions", Put(o1.v.graphViewOptions, "enabled", Scalar("true")))
        o3 == IF Not(o2.v.siteName) THEN Put(o2, "siteName", Scalar(VaultName)) ELSE o2
    IN  Put(settings, "exportOptions", o3)

\* loadSettings: Settings after the call and what its last save persisted.
loadSettings(settings, loadedSettings) ==
    LET m == deepAssign(settings, loadedSettings)
        isNewInstallation ==
            Not(loadedSettings) \/ (loadedSettings.t = "object" /\ DOMAIN loadedSettings.v = {})
        needsWebOptimization ==
            isNewInstallation \/ Not(Get(loadedSettings, "webOptimizedApplied"))
        final == IF needsWebOptimization
                 THEN Put(applyWebOptimizedDefaults(m), "webOptimizedApplied", Scalar("true"))
                 ELSE m
    IN  [ merged |-> m, optimized |-> needsWebOptimization, settings |-> final,
          saved |-> saveSettings(final) ]

\* ------------------------------------------ EnhancedDockerIntegration model

MaxClock == 1
SimulatedFilesGenerated == 150

ExportStages == << "Initializing", "Processing vault", "Optimizing assets",
                   "Generating pages", "Creating search index", "Finalizing export" >>

NoLogger == [ logLevel |-> -1, isCI |-> FALSE, logEntries |-> <<>>, out |-> <<>> ]
NoOptions == [ validateVault |-> "undefined" ]
NoResult == [ success |-> FALSE, filesGenerated |-> -1, warnings |-> <<>>, errors |-> <<>>,
              validated |-> FALSE, validationResult |-> NoFindings ]

\* getLogger(): the singleton is built on first use.
getLogger(L, e) == IF L = NoLogger THEN NewDockerLogger(e) ELSE L

Exceptions ==
    [ code : { "ENOENT", "EACCES", "EIO" },
      message : { <<"operation failed">>, <<"heap ", "out of memory">> } ]

RECURSIVE Messages(_)
Messages(items) ==
    IF items = <<>> THEN <<>> ELSE <<Head(items).message>> \o Messages(Tail(items))

RECURSIVE WarnFindings(_, _)
WarnFindings(L, warnings) ==
    IF warnings = <<>> THEN L
    ELSE WarnFindings(warn(L, <<Head(warnings).code>> \o Head(warnings).message,
                           [ NoContext EXCEPT !.troubleshooting = "path" ]),
                      Tail(warnings))

RECURSIVE ProgressEach(_, _, _)
ProgressEach(L, stages, n) ==
    IF n = 0 THEN L
    ELSE progress(ProgressEach(L, stages, n - 1), stages[n])

\* EnhancedDockerIntegration.validateVault: run the validator, log the outcome,
\* print the report at DEBUG level.
dockerValidateVault(L, v) ==
    LET r == validateVault(v)
        L1 == debug(L, <<"Vault validation completed">>,
                    [ NoContext EXCEPT !.troubleshooting = "counts" ])
    IN  [ result |-> r,
          logger |-> IF L.logLevel <= 0
                     THEN [ L1 EXCEPT !.out = Append(@, Printed("log", "validation-report",
                                <<IF r.isValid THEN "VALID" ELSE "INVALID">>)) ]
                     ELSE L1 ]

\* performExport: the simulated export, or the failure result of its catch block.
performExport(L, failAt, e) ==
    IF failAt = 0
    THEN [ logger |-> ProgressEach(L, ExportStages, Len(ExportStages)),
           result |-> [ success |-> TRUE, filesGenerated |-> SimulatedFilesGenerated,
                        warnings |-> <<>>, errors |-> <<>> ] ]
    ELSE [ logger |-> ProgressEach(L, ExportStages, failAt - 1),
           result |-> [ success |-> FALSE, filesGenerated |-> 0,
                        warnings |-> <<>>, errors |-> << e.message >> ] ]

\* process.env: every variable unset, except as stated.
EnvNames ==
    CIVariables \cup { "LOG_LEVEL" }
    \cup { StringEnv[i].var : i \in 1..Len(StringEnv) }
    \cup { BooleanEnv[i].var : i \in 1..Len(BooleanEnv) }
EmptyEnv == [ name \in EnvNames |-> "undefined" ]

EnvWith(level, ciName, ciValue, url) ==
    [ [ [ EmptyEnv EXCEPT !["LOG_LEVEL"] = level ]
                   EXCEPT ![ciName] = ciValue ]
                   EXCEPT !["OBSIDIAN_SITE_URL"] = url ]

Envs ==
    \* every spelling of LOG_LEVEL, outside and inside CI
    { EnvWith(level, "CI", ci, "undefined") :
        level \in { "undefined", "debug", "WARN", "Error", "verbose" },
        ci \in { "undefined", "true" } }
    \* the ways a CI variable can be set
    \cup { EnvWith("undefined", ci[1], ci[2], "undefined") :
        ci \in { <<"CI", "">>, <<"GITHUB_ACTIONS", "true">>, <<"CIRCLECI", "true">> } }
    \* a site URL that does not parse
    \cup { EnvWith(level, "CI", "undefined", "not a url") : level \in { "undefined", "Error" } }

\* The environments every vault is tried with.
CommonEnvs == { EmptyEnv, EnvWith("debug", "CI", "true", "undefined") }

ConfigNames == { "app.json", "workspace.json", "community-plugins.json", "core-plugins.json" }
FileStates == { "missing", "valid", "invalid" }

\* A healthy vault: every configuration file present and well-formed.
BaseVault ==
    [ root |-> "dir", obsidian |-> "dir",
      config |-> [ name \in ConfigNames |-> "valid" ],
      pluginsDir |-> TRUE, htmlExportData |-> "missing", plugins |-> {},
      markdownCount |-> 3, assetsCount |-> 0,
      attachments |-> [ d \in Range(AttachmentDirs) |-> 0 ],
      largeFiles |-> 0, sizeMB |-> 1, maxDepth |-> 2 ]

\* What is left of a vault when its root, or its .obsidian entry, is not a directory.
Hollow(v) ==
    IF v.root # "dir"
    THEN [ v EXCEPT !.obsidian = "missing",
                    !.config = [ name \in ConfigNames |-> "missing" ],
                    !.pluginsDir = FALSE, !.htmlExportData = "missing", !.plugins = {},
                    !.markdownCount = 0, !.assetsCount = 0,
                    !.attachments = [ d \in Range(AttachmentDirs) |-> 0 ],
                    !.largeFiles = 0, !.sizeMB = 0, !.maxDepth = 0 ]
    ELSE IF v.obsidian # "dir"
    THEN [ v EXCEPT !.config = [ name \in ConfigNames |-> "missing" ],
                    !.pluginsDir = FALSE, !.htmlExportData = "missing", !.plugins = {} ]
    ELSE v

DockerVaults ==
    \* the root is missing or a file
    { Hollow([ BaseVault EXCEPT !.root = r ]) : r \in { "missing", "file" } }
    \* .obsidian is missing or a file, whatever the notes are
    \cup { Hollow([ BaseVault EXCEPT !.obsidian = o, !.markdownCount = m, !.largeFiles = l,
                                     !.assetsCount = a, !.maxDepth = dp ]) :
             o \in { "missing", "file" }, m \in { 0, 3 }, l \in { 0, 1 },
             a \in { 0, AssetsLimit + 1 }, dp \in { 2, DepthLimit + 1 } }
    \* every combination of configuration files
    \cup { [ BaseVault EXCEPT !.config = c, !.pluginsDir = p ] :
             c \in [ ConfigNames -> FileStates ], p \in BOOLEAN }
    \* plugin directories
    \cup { [ BaseVault EXCEPT !.htmlExportData = h, !.plugins = ps ] :
             h \in FileStates, ps \in SUBSET Range(ProblematicPlugins) }
    \* content and size
    \cup { [ BaseVault EXCEPT !.markdownCount = m, !.assetsCount = a,
                              !.attachments = [ @ EXCEPT !["images"] = i ],
                              !.largeFiles = l, !.sizeMB = sz, !.maxDepth = dp ] :
             m \in { 0, 3, MarkdownLimit + 1 }, a \in { 0, AssetsLimit + 1 },
             i \in { 0, AttachmentLimit + 1 }, l \in { 0, 2 },
             sz \in { 1, VaultSizeLimitMB + 1 }, dp \in { 2, DepthLimit + 1 } }

\* The vaults every environment is tried with.
CommonVaults ==
    { BaseVault,
      Hollow([ BaseVault EXCEPT !.root = "missing" ]),
      Hollow([ BaseVault EXCEPT !.obsidian = "missing" ]),
      [ BaseVault EXCEPT !.config["app.json"] = "invalid" ],
      [ BaseVault EXCEPT !.config["workspace.json"] = "missing", !.largeFiles = 2 ] }

NoRun == [ number |-> 0, entries |-> 0, out |-> 0 ]

\* No Docker run is in progress.
DockerOff ==
    /\ dpc = "off"
    /\ dvault = BaseVault
    /\ entry = "none"
    /\ options = NoOptions
    /\ logger = NoLogger
    /\ operationId = -1
    /\ error = NoException
    /\ exportCalled = FALSE
    /\ dresult = NoResult
    /\ exitCode = -1
    /\ run = NoRun

DockerIdle == env = EmptyEnv /\ DockerOff

\* The process starts with some environment and some directory at the vault path.
DockerInit ==
    /\ dpc = "start"
    /\ \/ env \in Envs /\ dvault \in CommonVaults
       \/ env \in CommonEnvs /\ dvault \in DockerVaults
    /\ entry = "none"
    /\ options = NoOptions
    /\ logger = NoLogger
    /\ operationId = -1
    /\ error = NoException
    /\ exportCalled = FALSE
    /\ dresult = NoResult
    /\ exitCode = -1
    /\ run = NoRun

\* runDockerExport, lines 957-972: the logger, the first log line, the call
\* with validateVault: true.
RunDockerExport ==
    /\ UNCHANGED outsideDocker
    /\ dpc = "start"
    /\ entry' = "cli"
    /\ options' = [ validateVault |-> "true" ]
    /\ logger' = info(getLogger(logger, env), <<"Starting Docker export">>,
                      [ NoContext EXCEPT !.troubleshooting = "paths" ])
    /\ dpc' = "exportForDocker"
    /\ UNCHANGED <<run, env, dvault, operationId, error, exportCalled, dresult, exitCode>>

\* A caller builds an EnhancedDockerIntegration and calls exportForDocker itself.
CallExportForDocker ==
    /\ UNCHANGED outsideDocker
    /\ dpc = "start"
    /\ entry' = "api"
    /\ \E flag \in { "true", "false", "undefined" } : options' = [ validateVault |-> flag ]
    /\ logger' = getLogger(logger, env)
    /\ dpc' = "exportForDocker"
    /\ UNCHANGED <<run, env, dvault, operationId, error, exportCalled, dresult, exitCode>>

\* Lines 586-595: startOperation, then the configuration is loaded.
BeginExportForDocker ==
    /\ UNCHANGED outsideDocker
    /\ dpc = "exportForDocker"
    /\ \E id \in 0..MaxClock :
        /\ operationId' = id
        /\ logger' = loadConfiguration(
                        info(startOperation(logger, "Docker Export", id),
                             <<"Loading configuration from environment variables">>, NoContext),
                        DEFAULT_WEB_CONFIG, env, NoOverrides).logger
    /\ run' = [ number |-> run.number + 1, entries |-> Len(logger.logEntries),
                 out |-> Len(logger.out) ]
    /\ dpc' = "validate"
    /\ UNCHANGED <<env, dvault, entry, options, error, exportCalled, dresult, exitCode>>

\* Line 599 with validateVault: false: validation is skipped.
SkipValidation ==
    /\ UNCHANGED outsideDocker
    /\ dpc = "validate"
    /\ options.validateVault = "false"
    /\ dpc' = "export"
    /\ UNCHANGED <<run, env, dvault, entry, options, logger, operationId, error,
                   exportCalled, dresult, exitCode>>

exportForDockerValidationIgnored(L, r) ==
    [ returns |-> FALSE,
      logger |-> IF Len(r.warnings) > 0
                 THEN WarnFindings(warn(L, <<"Vault validation completed with warnings">>,
                                        NoContext), r.warnings)
                 ELSE L,
      result |-> [ NoResult EXCEPT !.validated = TRUE, !.validationResult = r ] ]

\* Lines 603-626: an invalid vault ends the call with a failure result, a
\* valid one has its warnings logged.
exportForDockerValidation(L, r) ==
    IF ~r.isValid
    THEN [ returns |-> TRUE,
           logger |-> errorWithTroubleshooting(L,
                        <<"Vault validation failed - cannot proceed with export">>,
                        "INVALID_OBSIDIAN_VAULT", NoException),
           result |-> [ success |-> FALSE, filesGenerated |-> 0,
                        warnings |-> Messages(r.warnings), errors |-> Messages(r.errors),
                        validated |-> TRUE, validationResult |-> r ] ]
    ELSE [ returns |-> FALSE,
           logger |-> IF Len(r.warnings) > 0
                      THEN WarnFindings(warn(L, <<"Vault validation completed with warnings">>,
                                             NoContext), r.warnings)
                      ELSE L,
           result |-> [ NoResult EXCEPT !.validated = TRUE, !.validationResult = r ] ]

\* Lines 599-627: the vault is validated.
ValidateVaultStep ==
    /\ UNCHANGED outsideDocker
    /\ dpc = "validate"
    /\ options.validateVault # "false"
    /\ LET L1 == info(logger, <<"Validating vault structure and configuration">>, NoContext)
           v == dockerValidateVault(L1, dvault)
           o == exportForDockerValidation(v.logger, v.result)
       IN  /\ logger' = o.logger
           /\ dresult' = o.result
           /\ dpc' = IF o.returns THEN "returned" ELSE "export"
    /\ UNCHANGED <<run, env, dvault, entry, options, operationId, error, exportCalled, exitCode>>

\* A file-system call of the validator outside its try blocks throws.
ValidateVaultThrows ==
    /\ UNCHANGED outsideDocker
    /\ dpc = "validate"
    /\ options.validateVault # "false"
    /\ logger' = info(logger, <<"Validating vault structure and configuration">>, NoContext)
    /\ \E e \in Exceptions : error' = e
    /\ dpc' = "catch"
    /\ UNCHANGED <<run, env, dvault, entry, options, operationId, exportCalled, dresult, exitCode>>

\* Lines 629-660: the export, the end of the operation, the summary, the result.
PerformExportStep ==
    /\ UNCHANGED outsideDocker
    /\ dpc = "export"
    /\ exportCalled' = TRUE
    /\ \E failAt \in 0..Len(ExportStages), e \in Exceptions :
        /\ e.code = "EIO"
        /\ failAt = 0 => e.message = <<"operation failed">>
        /\ LET L1 == info(logger, <<"Starting web export process">>, NoContext)
               x == performExport(L1, failAt, e)
               L2 == endOperation(x.logger, "Docker Export", operationId)
               L3 == IF x.result.success
                     THEN info(L2, <<"Docker export completed successfully">>,
                               [ NoContext EXCEPT !.troubleshooting = "stats" ])
                     ELSE logError(L2, <<"Docker export failed">>, NoException,
                                   [ NoContext EXCEPT !.troubleshooting = "stats" ])
           IN  /\ logger' = PrintSummary(L3)
               /\ dresult' = [ success |-> x.result.success,
                               filesGenerated |-> x.result.filesGenerated,
                               warnings |-> x.result.warnings,
                               errors |-> x.result.errors,
                               validated |-> dresult.validated,
                               validationResult |-> dresult.validationResult ]
    /\ dpc' = "returned"
    /\ UNCHANGED <<run, env, dvault, entry, options, operationId, error, exitCode>>

CatchDockerErrorMessageFirst ==
    /\ UNCHANGED outsideDocker
    /\ dpc = "catch"
    /\ LET L1 == endOperation(logger, "Docker Export", operationId)
           errorMessage == <<"Docker export failed: ">> \o error.message
           L2 == IF "out of memory" \in Range(error.message)
                 THEN errorWithTroubleshooting(L1, errorMessage, "OUT_OF_MEMORY", error)
                 ELSE IF error.code = "ENOENT"
                 THEN errorWithTroubleshooting(L1, errorMessage, "VAULT_NOT_FOUND", error)
                 ELSE IF error.code = "EACCES"
                 THEN errorWithTroubleshooting(L1, errorMessage, "PERMISSION_DENIED", error)
                 ELSE logError(L1, errorMessage, error, NoContext)
       IN  /\ logger' = PrintSummary(L2)
           /\ dresult' = [ success |-> FALSE, filesGenerated |-> 0, warnings |-> <<>>,
                           errors |-> << errorMessage >>,
                           validated |-> FALSE, validationResult |-> NoFindings ]
    /\ dpc' = "returned"
    /\ UNCHANGED <<run, env, dvault, entry, options, operationId, error, exportCalled, exitCode>>

\* Lines 662-700: the catch block of exportForDocker.
CatchDockerError ==
    /\ UNCHANGED outsideDocker
    /\ dpc = "catch"
    /\ LET L1 == endOperation(logger, "Docker Export", operationId)
           errorMessage == <<"Docker export failed: ">> \o error.message
           L2 == IF error.code = "ENOENT"
                 THEN errorWithTroubleshooting(L1, errorMessage, "VAULT_NOT_FOUND", error)
                 ELSE IF error.code = "EACCES"
                 THEN errorWithTroubleshooting(L1, errorMessage, "PERMISSION_DENIED", error)
                 ELSE IF "out of memory" \in Range(error.message)
                 THEN errorWithTroubleshooting(L1, errorMessage, "OUT_OF_MEMORY", error)
                 ELSE logError(L1, errorMessage, error, NoContext)
       IN  /\ logger' = PrintSummary(L2)
           /\ dresult' = [ success |-> FALSE, filesGenerated |-> 0, warnings |-> <<>>,
                           errors |-> << errorMessage >>,
                           validated |-> FALSE, validationResult |-> NoFindings ]
    /\ dpc' = "returned"
    /\ UNCHANGED <<run, env, dvault, entry, options, operationId, error, exportCalled, exitCode>>

exitCodeAlwaysZero(r) == 0

\* Line 975: result.success ? 0 : 1
exitCodeOf(r) == IF r.success THEN 0 ELSE 1

\* runDockerExport, line 975: process.exit.
Exit ==
    /\ UNCHANGED outsideDocker
    /\ dpc = "returned"
    /\ entry = "cli"
    /\ exitCode' = exitCodeOf(dresult)
    /\ dpc' = "exited"
    /\ UNCHANGED <<run, env, dvault, entry, options, logger, operationId, error,
                   exportCalled, dresult>>

\* The caller calls exportForDocker once more in the same process, on the
\* vault as it is or after it has been repaired; the logger is the singleton.
CallExportForDockerAgain ==
    /\ UNCHANGED outsideDocker
    /\ dpc = "returned"
    /\ entry = "api"
    /\ run.number < MaxRuns
    /\ dvault' \in { dvault, BaseVault }
    /\ operationId' = -1
    /\ error' = NoException
    /\ exportCalled' = FALSE
    /\ dresult' = NoResult
    /\ dpc' = "exportForDocker"
    /\ UNCHANGED <<run, env, entry, options, logger, exitCode>>

DockerNext ==
    \/ RunDockerExport
    \/ CallExportForDocker
    \/ BeginExportForDocker
    \/ SkipValidation
    \/ ValidateVaultStep
    \/ ValidateVaultThrows
    \/ PerformExportStep
    \/ CatchDockerError
    \/ Exit

\* ------------------------------------------- configuration operations

\* The environments the configuration loader is tried with: every spelling of
\* a boolean for a switch that is on by default and one that is off, an unknown
\* word for the others, and the site and analytics values.
BooleanWords ==
    { "undefined", "true", "TRUE", "1", "Yes", "false", "False", "0", "NO",
      "maybe", "", " true " }

ConfigEnvs ==
    { [ EmptyEnv EXCEPT ![name] = w ] :
        name \in { "OBSIDIAN_FEATURE_SEARCH", "OBSIDIAN_OFFLINE_RESOURCES" }, w \in BooleanWords }
    \cup { [ EmptyEnv EXCEPT ![name] = w ] :
        name \in { "OBSIDIAN_FEATURE_SIDEBAR", "OBSIDIAN_GENERATE_SITEMAP",
                   "OBSIDIAN_SLUGIFY_PATHS" }, w \in { "false", "maybe" } }
    \cup { [ EmptyEnv EXCEPT !["OBSIDIAN_SITE_NAME"] = n, !["OBSIDIAN_SITE_URL"] = u,
                             !["OBSIDIAN_GOOGLE_ANALYTICS_ID"] = g ] :
        n \in { "undefined", "Docs", " " },
        u \in { "undefined", "not a url", "http://localhost:8080" },
        g \in { "undefined", "G-ABC123", "GT-XYZ9", "UA-12345" } }
    \cup { [ EmptyEnv EXCEPT !["OBSIDIAN_SITE_DESCRIPTION"] = " ",
                             !["OBSIDIAN_OFFLINE_RESOURCES"] = "yes" ] }
    \* every variable set to the empty string
    \cup { [ name \in EnvNames |-> "" ] }

\* configOverrides a caller can pass: nothing, or some fields of one section.
Overrides ==
    { NoOverrides,
      [ site |-> [ name |-> "Docs" ] ],
      [ features |-> [ search |-> FALSE ] ],
      [ seo |-> [ googleAnalyticsId |-> "" ] ],
      [ advanced |-> [ offlineResources |-> TRUE ] ] }

\* What plugin.loadData() can return to the settings tab.
StoredData ==
    { [ kind |-> "none" ],
      [ kind |-> "throws" ],
      [ kind |-> "webConfig", webConfig |-> BuiltInDefaults ],
      [ kind |-> "webConfig",
        webConfig |-> [ site |-> [ name |-> "Notes", description |-> "My notes",
                                   url |-> "http://localhost:8080" ] ] ],
      [ kind |-> "exportOptions", exportOptions |-> [ siteName |-> "Old Site" ] ],
      [ kind |-> "exportOptions",
        exportOptions |-> [ siteName |-> "", searchOptions |-> [ enabled |-> FALSE ],
                            offlineResources |-> TRUE ] ] }

\* getSupportedEnvironmentVariables: the keys, in the order of the object
\* literal, of the variables the loader reads here.
SupportedEnvironmentVariables ==
    << "OBSIDIAN_SITE_NAME", "OBSIDIAN_SITE_DESCRIPTION", "OBSIDIAN_SITE_URL",
       "OBSIDIAN_FEATURE_SEARCH", "OBSIDIAN_FEATURE_SIDEBAR",
       "OBSIDIAN_GOOGLE_ANALYTICS_ID", "OBSIDIAN_GENERATE_SITEMAP",
       "OBSIDIAN_SLUGIFY_PATHS", "OBSIDIAN_OFFLINE_RESOURCES" >>

\* The properties of a configuration in the order JSON.stringify writes them.
ConfigLayout ==
    << <<"site", "name">>, <<"site", "description">>, <<"site", "url">>,
       <<"features", "search">>, <<"features", "sidebar">>,
       <<"seo", "googleAnalyticsId">>, <<"seo", "generateSitemap">>,
       <<"advanced", "slugifyPaths">>, <<"advanced", "offlineResources">> >>

\* JSON.stringify(config, null, 2): one section, property and value after the
\* other, booleans written as the words true and false, properties that are
\* missing or undefined left out.
RECURSIVE JsonStringify(_, _)
JsonStringify(c, i) ==
    IF i > Len(ConfigLayout) THEN <<>>
    ELSE LET section == ConfigLayout[i][1]
             field == ConfigLayout[i][2]
             sec == c[section]
             text == IF field \notin DOMAIN sec THEN <<>>
                     ELSE IF field \in StringFields
                     THEN IF sec[field] = "undefined" THEN <<>>
                          ELSE <<section, field, sec[field]>>
                     ELSE <<section, field, IF sec[field] THEN "true" ELSE "false">>
         IN  text \o JsonStringify(c, i + 1)

\* The "  VAR=value" lines: every supported variable that is set, the value
\* of a variable whose name includes ANALYTICS replaced by three stars.
RECURSIVE DetectedVariables(_, _)
DetectedVariables(e, i) ==
    IF i > Len(SupportedEnvironmentVariables) THEN <<>>
    ELSE LET envVar == SupportedEnvironmentVariables[i]
             value == e[envVar]
             maskedValue == IF envVar = "OBSIDIAN_GOOGLE_ANALYTICS_ID" THEN "***" ELSE value
         IN  (IF value # "undefined" THEN << <<"  ", envVar, "=", maskedValue>> >> ELSE <<>>)
             \o DetectedVariables(e, i + 1)

\* DockerConfigLoader.logEnvironmentConfig: what it writes to the console, the
\* warnings of the load first.
logEnvironmentConfig(defaults, e) ==
    LET fromEnv == loadFromEnvironment(defaults, e)
        errors == validateWebConfig(fromEnv.config)
    IN  fromEnv.warnings
        \o << <<"=== Docker Environment Configuration ===">>,
               <<"Loaded configuration:">>,
               JsonStringify(fromEnv.config, 1),
               <<"Environment variables detected:">> >>
        \o DetectedVariables(e, 1)
        \o (IF Len(errors) > 0
             THEN << <<"Configuration errors:">> >>
                  \o [ k \in 1..Len(errors) |-> <<"  - ">> \o errors[k] ]
             ELSE << <<"Configuration is valid">> >>)

\* No configuration operation has run; the settings tab holds the deep copy its
\* constructor made.
ConfigIdle ==
    /\ DEFAULT_WEB_CONFIG = BuiltInDefaults
    /\ config = DeepCopy(BuiltInDefaults)
    /\ overrides = NoOverrides
    /\ configErrors = <<>>
    /\ console = <<>>
    /\ lastOp = "none"
    /\ ops = 0

\* DockerConfigLoader.loadFromEnvironment()
LoadFromEnvironment ==
    /\ UNCHANGED outsideConfig
    /\ ops < MaxOps
    /\ LET loaded == loadFromEnvironment(DEFAULT_WEB_CONFIG, env)
       IN  /\ config' = loaded.config
           /\ console' = console \o loaded.warnings
    /\ lastOp' = "loadFromEnvironment"
    /\ ops' = ops + 1
    /\ UNCHANGED <<DEFAULT_WEB_CONFIG, overrides, configErrors, logger>>

\* EnhancedDockerIntegration.loadConfiguration(options.configOverrides)
LoadConfiguration ==
    /\ UNCHANGED outsideConfig
    /\ ops < MaxOps
    /\ \E o \in Overrides :
        LET r == loadConfiguration(getLogger(logger, env), DEFAULT_WEB_CONFIG, env, o)
        IN  /\ overrides' = o
            /\ config' = r.config
            /\ configErrors' = r.errors
            /\ console' = console \o r.warnings
            /\ logger' = r.logger
    /\ lastOp' = "loadConfiguration"
    /\ ops' = ops + 1
    /\ UNCHANGED DEFAULT_WEB_CONFIG

\* WebSettingsTab.saveConfig: validate, warn, store.
saveConfig(c, out) ==
    [ errors |-> validateWebConfig(c),
      console |-> IF Len(validateWebConfig(c)) > 0
                  THEN Append(out, <<"Web config validation errors:">>) ELSE out ]

\* WebSettingsTab.loadConfig()
LoadConfig ==
    /\ UNCHANGED outsideConfig
    /\ ops < MaxOps
    /\ \E data \in StoredData :
        CASE data.kind = "webConfig" ->
                /\ config' = SpreadOverDefaults(DEFAULT_WEB_CONFIG, data.webConfig)
                /\ lastOp' = "loadConfig"
                /\ UNCHANGED <<configErrors, console>>
          [] data.kind = "exportOptions" ->
                LET c == migrateFromLegacyConfig(DEFAULT_WEB_CONFIG, data.exportOptions)
                IN  /\ config' = c
                    /\ configErrors' = saveConfig(c, console).errors
                    /\ console' = saveConfig(c, console).console
                    /\ lastOp' = "saveConfig"
          [] data.kind = "none" ->
                /\ config' = Assign(DeepCopy(DEFAULT_WEB_CONFIG), "site", "name", "My Vault")
                /\ lastOp' = "loadConfig"
                /\ UNCHANGED <<configErrors, console>>
          [] data.kind = "throws" ->
                /\ config' = DeepCopy(DEFAULT_WEB_CONFIG)
                /\ lastOp' = "loadConfig"
                /\ UNCHANGED <<configErrors, console>>
    /\ ops' = ops + 1
    /\ UNCHANGED <<DEFAULT_WEB_CONFIG, overrides, logger>>

\* this.config.<section>.<field> = value: the write goes to the section object
\* that config refers to, which is the one of the defaults when it is shared.
Write(defaults, c, section, field, value) ==
    [ config |-> Assign(c, section, field, value),
      defaults |-> IF section \in c.aliased
                   THEN [ defaults EXCEPT ![section] = With(@, field, value) ]
                   ELSE defaults ]

\* The Site Name text setting: assign, then saveConfig.
SetSiteName ==
    /\ UNCHANGED outsideConfig
    /\ ops < MaxOps
    /\ \E value \in { "Docs", " " } :
        LET w == Write(DEFAULT_WEB_CONFIG, config, "site", "name", value)
            saved == saveConfig(w.config, console)
        IN  /\ config' = w.config
            /\ DEFAULT_WEB_CONFIG' = w.defaults
            /\ configErrors' = saved.errors
            /\ console' = saved.console
    /\ lastOp' = "saveConfig"
    /\ ops' = ops + 1
    /\ UNCHANGED <<overrides, logger>>

\* The search toggle: assign, then saveConfig.
SetFeatureSearch ==
    /\ UNCHANGED outsideConfig
    /\ ops < MaxOps
    /\ \E value \in BOOLEAN :
        LET w == Write(DEFAULT_WEB_CONFIG, config, "features", "search", value)
            saved == saveConfig(w.config, console)
        IN  /\ config' = w.config
            /\ DEFAULT_WEB_CONFIG' = w.defaults
            /\ configErrors' = saved.errors
            /\ console' = saved.console
    /\ lastOp' = "saveConfig"
    /\ ops' = ops + 1
    /\ UNCHANGED <<overrides, logger>>

\* The Google Analytics ID text setting: value || undefined, then saveConfig.
SetGoogleAnalyticsId ==
    /\ UNCHANGED outsideConfig
    /\ ops < MaxOps
    /\ \E value \in { "", "g-abc123", "GT-XYZ9" } :
        LET w == Write(DEFAULT_WEB_CONFIG, config, "seo", "googleAnalyticsId",
                       IF Falsy(value) THEN "undefined" ELSE value)
            saved == saveConfig(w.config, console)
        IN  /\ config' = w.config
            /\ DEFAULT_WEB_CONFIG' = w.defaults
            /\ configErrors' = saved.errors
            /\ console' = saved.console
    /\ lastOp' = "saveConfig"
    /\ ops' = ops + 1
    /\ UNCHANGED <<overrides, logger>>

\* DockerConfigLoader.logEnvironmentConfig(): the configuration it loads is a
\* local of the call.
LogEnvironmentConfig ==
    /\ UNCHANGED outsideConfig
    /\ ops < MaxOps
    /\ console' = console \o logEnvironmentConfig(DEFAULT_WEB_CONFIG, env)
    /\ lastOp' = "logEnvironmentConfig"
    /\ ops' = ops + 1
    /\ UNCHANGED <<DEFAULT_WEB_CONFIG, config, overrides, configErrors, logger>>

ConfigNext ==
    \/ LoadFromEnvironment
    \/ LogEnvironmentConfig
    \/ LoadConfiguration
    \/ LoadConfig
    \/ SetSiteName
    \/ SetFeatureSearch
    \/ SetGoogleAnalyticsId

\* ------------------------------------------------- direct logger calls

\* The environments the logger is constructed in.
LoggerEnvs ==
    Envs \cup { EnvWith("", "CI", "undefined", "undefined"),
                EnvWith("WARN", "JENKINS_URL", "http://ci.local", "undefined"),
                EnvWith("Error", "BUILDKITE", "", "undefined") }

NoCall == [ method |-> "none", level |-> -1, before |-> NoLogger, returned |-> "void" ]
Call(method, level, L, returned) ==
    [ method |-> method, level |-> level, before |-> L, returned |-> returned ]

SomeException == [ code |-> "EIO", message |-> <<"operation failed">> ]

LoggerIdle == lastCall = NoCall /\ logCalls = 0

\* DockerLogger.getInstance(), first call: the constructor runs.
GetInstance ==
    /\ UNCHANGED outsideLogger
    /\ logger = NoLogger
    /\ logger' = NewDockerLogger(env)
    /\ lastCall' = Call("getInstance", -1, logger, "void")
    /\ UNCHANGED logCalls

\* logger.debug(message)
CallDebug ==
    /\ UNCHANGED outsideLogger
    /\ logger # NoLogger
    /\ logCalls < MaxCalls
    /\ logger' = debug(logger, <<"detail">>, NoContext)
    /\ lastCall' = Call("debug", DEBUG, logger, "void")
    /\ logCalls' = logCalls + 1

\* logger.info(message)
CallInfo ==
    /\ UNCHANGED outsideLogger
    /\ logger # NoLogger
    /\ logCalls < MaxCalls
    /\ logger' = info(logger, <<"step">>, NoContext)
    /\ lastCall' = Call("info", INFO, logger, "void")
    /\ logCalls' = logCalls + 1

\* logger.warn(message)
CallWarn ==
    /\ UNCHANGED outsideLogger
    /\ logger # NoLogger
    /\ logCalls < MaxCalls
    /\ logger' = warn(logger, <<"careful">>, NoContext)
    /\ lastCall' = Call("warn", WARN, logger, "void")
    /\ logCalls' = logCalls + 1

\* logger.error(message, error?)
CallError ==
    /\ UNCHANGED outsideLogger
    /\ logger # NoLogger
    /\ logCalls < MaxCalls
    /\ \E e \in { NoException, SomeException } :
        /\ logger' = logError(logger, <<"failed">>, e, NoContext)
        /\ lastCall' = Call("error", ERROR, logger, "void")
    /\ logCalls' = logCalls + 1

\* logger.progress(stage, current, total)
CallProgress ==
    /\ UNCHANGED outsideLogger
    /\ logger # NoLogger
    /\ logCalls < MaxCalls
    /\ logger' = progress(logger, "Processing vault")
    /\ lastCall' = Call("progress", INFO, logger, "void")
    /\ logCalls' = logCalls + 1

\* logger.startOperation(operation): returns the operation id
CallStartOperation ==
    /\ UNCHANGED outsideLogger
    /\ logger # NoLogger
    /\ logCalls < MaxCalls
    /\ \E id \in 0..MaxClock :
        /\ logger' = startOperation(logger, "Export", id)
        /\ lastCall' = Call("startOperation", INFO, logger, id)
    /\ logCalls' = logCalls + 1

\* logger.endOperation(operation, operationId)
CallEndOperation ==
    /\ UNCHANGED outsideLogger
    /\ logger # NoLogger
    /\ logCalls < MaxCalls
    /\ \E id \in 0..MaxClock :
        /\ logger' = endOperation(logger, "Export", id)
        /\ lastCall' = Call("endOperation", INFO, logger, "void")
    /\ logCalls' = logCalls + 1

\* logger.errorWithTroubleshooting(message, troubleshooting, error?)
CallErrorWithTroubleshooting ==
    /\ UNCHANGED outsideLogger
    /\ logger # NoLogger
    /\ logCalls < MaxCalls
    /\ \E e \in { NoException, SomeException } :
        /\ logger' = errorWithTroubleshooting(logger, <<"failed">>, "OUT_OF_MEMORY", e)
        /\ lastCall' = Call("errorWithTroubleshooting", ERROR, logger, "void")
    /\ logCalls' = logCalls + 1

\* logger.generateSummaryReport()
CallGenerateSummaryReport ==
    /\ UNCHANGED outsideLogger
    /\ logger # NoLogger
    /\ logCalls < MaxCalls
    /\ logger' = logger
    /\ lastCall' = Call("generateSummaryReport", -1, logger, generateSummaryReport(logger))
    /\ logCalls' = logCalls + 1

\* logger.exportLogsAsJSON()
CallExportLogsAsJSON ==
    /\ UNCHANGED outsideLogger
    /\ logger # NoLogger
    /\ logCalls < MaxCalls
    /\ logger' = logger
    /\ lastCall' = Call("exportLogsAsJSON", -1, logger, exportLogsAsJSON(logger))
    /\ logCalls' = logCalls + 1

LoggerNext ==
    \/ GetInstance
    \/ CallDebug
    \/ CallInfo
    \/ CallWarn
    \/ CallError
    \/ CallProgress
    \/ CallStartOperation
    \/ CallEndOperation
    \/ CallErrorWithTroubleshooting
    \/ CallGenerateSummaryReport
    \/ CallExportLogsAsJSON

\* ------------------------------------------------- export index operations

IndexIdle ==
    /\ previousManifest = [ p \in IndexPaths |-> Absent ]
    /\ currentFileSet = [ p \in IndexPaths |-> Absent ]
    /\ index = NoIndex

\* The index is computed from the manifest loaded and the files of this run.
Diff ==
    /\ UNCHANGED outsideIndex
    /\ ~index.computed
    /\ index' = diff(previousManifest, currentFileSet)
    /\ UNCHANGED <<previousManifest, currentFileSet>>

IndexNext == Diff

\* ------------------------------------------------- settings operations

\* An object with the keys whose value is not Undefined.
Present(fields) ==
    Object([ k \in { k \in DOMAIN fields : fields[k].t # "undefined" } |-> fields[k] ])

\* The values a field of data.json can hold; Undefined stands for a missing key.
PersistedGraphView ==
    << Undefined, EmptyObject, Object([ enabled |-> Scalar("false") ]),
       Object([ enabled |-> Scalar("false"), showOrphanNodes |-> Scalar("true") ]) >>
PersistedSlugify == << Undefined, Scalar("false") >>
PersistedSiteName == << Undefined, Scalar("Garden") >>
PersistedFiles == << Undefined, Array(<<"notes">>) >>
PersistedLogLevel == << Undefined, Scalar("error"), Null >>
PersistedWhitelist == << Undefined, Array(<<>>), Array(<<"md", "png">>) >>
PersistedFlag == << Undefined, Scalar("true") >>
PersistedPreset == << Undefined, Scalar("online") >>

\* What data.json can hold when the plugin is first loaded, besides nothing.
PersistedData ==
    { Present([ logLevel |-> PersistedLogLevel[a],
                filePickerWhitelist |-> PersistedWhitelist[b],
                exportOptions |->
                    IF has
                    THEN Present([ slugifyPaths |-> PersistedSlugify[c],
                                   siteName |-> PersistedSiteName[d],
                                   filesToExport |-> PersistedFiles[e],
                                   graphViewOptions |-> PersistedGraphView[f] ])
                    ELSE Undefined,
                webOptimizedApplied |-> PersistedFlag[g],
                exportPreset |-> PersistedPreset[h] ]) :
        a \in 1..3, b \in 1..3, has \in BOOLEAN, c \in 1..2, d \in 1..2, e \in 1..2,
        f \in 1..4, g \in 1..2, h \in 1..2 }

SettingsIdle ==
    /\ Settings = DefaultSettings
    /\ pluginData = Null
    /\ loads = 0
    /\ loadedData = Undefined
    /\ mergedSettings = DefaultSettings
    /\ applied = <<>>

\* The plugin is loaded: the class is initialised afresh, then loadSettings runs
\* and its saves complete.
LoadSettings ==
    /\ UNCHANGED outsideSettings
    /\ loads < MaxLoads
    /\ LET r == loadSettings(DefaultSettings, pluginData)
       IN  /\ Settings' = r.settings
           /\ pluginData' = r.saved
           /\ mergedSettings' = r.merged
           /\ applied' = IF r.optimized THEN Append(applied, loads + 1) ELSE applied
    /\ loadedData' = pluginData
    /\ loads' = loads + 1

\* The user switches the slugify toggle; the setting is saved.
ToggleSlugifyPaths ==
    /\ UNCHANGED outsideSettings
    /\ loads > 0
    /\ \E value \in { "true", "false" } :
        /\ Get(Settings.v.exportOptions, "slugifyPaths") # Scalar(value)
        /\ Settings' = Put(Settings, "exportOptions",
                           Put(Settings.v.exportOptions, "slugifyPaths", Scalar(value)))
    /\ pluginData' = saveSettings(Settings')
    /\ UNCHANGED <<loads, loadedData, mergedSettings, applied>>

SettingsNext == LoadSettings \/ ToggleSlugifyPaths

\* ------------------------------------------------------- file selection

\* Paths are sequences of characters, so that startsWith is computed on them.
NotesA == <<"n", "o", "t", "e", "s", "/", "a", ".", "m", "d">>
Notes2A == <<"n", "o", "t", "e", "s", "2", "/", "a", ".", "m", "d">>
NotesSubB == <<"n", "o", "t", "e", "s", "/", "s", "u", "b", "/", "b", ".", "m", "d">>
Readme == <<"r", "e", "a", "d", "m", "e", ".", "m", "d">>
NotesFolder == <<"n", "o", "t", "e", "s">>
Notes2Folder == <<"n", "o", "t", "e", "s", "2">>
SubFolder == <<"n", "o", "t", "e", "s", "/", "s", "u", "b">>
Missing == <<"g", "o", "n", "e">>

AllPaths == << NotesA, Notes2A, NotesSubB, Readme >>

\* The vaults: any of the files, in the order the vault lists them.
SelectionVaults ==
    LET Kept(S) == SelectSeq(AllPaths, LAMBDA p : \E i \in S : AllPaths[i] = p)
    IN  { Kept(S) : S \in SUBSET (1..Len(AllPaths)) }

\* The paths a selection can name.
PathChoices == { NotesFolder, Notes2Folder, SubFolder, NotesA, Missing }
PathLists == UNION { [ 1..n -> PathChoices ] : n \in 0..MaxPaths }

\* String.prototype.startsWith
startsWith(text, searchString) ==
    /\ Len(searchString) <= Len(text)
    /\ SubSeq(text, 1, Len(searchString)) = searchString

\* The folders of a vault: every directory one of its files lies in.
Folders(allFiles) ==
    { SubSeq(allFiles[ki[1]], 1, ki[2] - 1) :
        ki \in { x \in (1..Len(allFiles)) \X (1..Len(NotesSubB)) :
                   x[2] <= Len(allFiles[x[1]]) /\ allFiles[x[1]][x[2]] = "/" } }

\* app.vault.getAbstractFileByPath(path): what kind of entry the path names.
getAbstractFileByPath(allFiles, path) ==
    IF \E k \in 1..Len(allFiles) : allFiles[k] = path THEN "TFile"
    ELSE IF path \in Folders(allFiles) THEN "TFolder"
    ELSE "null"

\* Settings.getAllFilesFromPaths, the loop from path number i on.
RECURSIVE FilesFromPaths(_, _, _)
FilesFromPaths(allFilePaths, paths, i) ==
    IF i > Len(paths) THEN <<>>
    ELSE LET path == paths[i]
             file == getAbstractFileByPath(allFilePaths, path)
             pushed == IF file = "TFile" THEN <<path>>
                       ELSE IF file = "TFolder"
                       THEN SelectSeq(allFilePaths, LAMBDA f : startsWith(f, path))
                       ELSE <<>>
         IN  pushed \o FilesFromPaths(allFilePaths, paths, i + 1)

getAllFilesFromPaths(allFilePaths, paths) ==
    IF Len(paths) = 0 THEN allFilePaths
    ELSE FilesFromPaths(allFilePaths, paths, 1)

\* new Path(f).directory.path: the path of the directory the file lies in,
\* empty for a file at the root of the vault.
directory(f) ==
    LET slashes == { i \in 1..Len(f) : f[i] = "/" }
    IN  IF slashes = {} THEN <<>>
        ELSE SubSeq(f, 1, (CHOOSE i \in slashes : \A j \in slashes : j <= i) - 1)

\* The file-menu item "Export as Website" on a folder: the files handed to
\* exportSpecificFiles.
filesInFolder(allFiles, folder) ==
    SelectSeq(allFiles, LAMBDA f : startsWith(directory(f), folder))

SelectionIdle ==
    /\ vaultFiles = <<>>
    /\ exportPaths = <<>>
    /\ selected = <<>>
    /\ selectedBy = "none"

\* Settings.getAllFilesFromPaths(paths)
GetAllFilesFromPaths ==
    /\ UNCHANGED outsideSelection
    /\ \E paths \in PathLists :
        /\ exportPaths' = paths
        /\ selected' = getAllFilesFromPaths(vaultFiles, paths)
    /\ selectedBy' = "getAllFilesFromPaths"
    /\ UNCHANGED vaultFiles

\* The file-menu item on a file of the vault: the file itself is exported.
FileMenuOnFile ==
    /\ UNCHANGED outsideSelection
    /\ \E file \in PathChoices :
        /\ getAbstractFileByPath(vaultFiles, file) = "TFile"
        /\ exportPaths' = <<file>>
        /\ selected' = <<file>>
    /\ selectedBy' = "file-menu"
    /\ UNCHANGED vaultFiles

\* The file-menu item on a folder of the vault.
FileMenuOnFolder ==
    /\ UNCHANGED outsideSelection
    /\ \E file \in PathChoices :
        /\ getAbstractFileByPath(vaultFiles, file) = "TFolder"
        /\ exportPaths' = <<file>>
        /\ selected' = filesInFolder(vaultFiles, file)
    /\ selectedBy' = "file-menu"
    /\ UNCHANGED vaultFiles

SelectionNext == GetAllFilesFromPaths \/ FileMenuOnFile \/ FileMenuOnFolder

\* ------------------------------------------------------- specifications

\* One run of WebExportManager.exportFiles.
Init == ExportInit /\ DockerIdle /\ ConfigIdle /\ LoggerIdle /\ IndexIdle /\ SettingsIdle /\ SelectionIdle
Next == ExportNext
Spec == Init /\ [][Next]_vars

\* One run of runDockerExport or exportForDocker.
InitDocker == ExportInit /\ DockerInit /\ ConfigIdle /\ LoggerIdle /\ IndexIdle /\ SettingsIdle /\ SelectionIdle
NextDocker == DockerNext
SpecDocker == InitDocker /\ [][NextDocker]_vars

\* Configuration loads and settings edits, in some environment.
InitConfig ==
    /\ ExportInit
    /\ env \in ConfigEnvs
    /\ DockerOff
    /\ ConfigIdle
    /\ LoggerIdle
    /\ IndexIdle
    /\ SettingsIdle /\ SelectionIdle
NextConfig == ConfigNext
SpecConfig == InitConfig /\ [][NextConfig]_vars

\* Several exportForDocker calls in one process.
InitDockerRuns ==
    /\ ExportInit
    /\ dpc = "start"
    /\ env \in CommonEnvs
    /\ dvault \in { BaseVault, Hollow([ BaseVault EXCEPT !.obsidian = "missing" ]) }
    /\ entry = "none"
    /\ options = NoOptions
    /\ logger = NoLogger
    /\ operationId = -1
    /\ error = NoException
    /\ exportCalled = FALSE
    /\ dresult = NoResult
    /\ exitCode = -1
    /\ run = NoRun
    /\ ConfigIdle
    /\ LoggerIdle
    /\ IndexIdle
    /\ SettingsIdle /\ SelectionIdle
NextDockerRuns == DockerNext \/ CallExportForDockerAgain
SpecDockerRuns == InitDockerRuns /\ [][NextDockerRuns]_vars

\* Calls on the logger singleton, constructed in some environment.
InitLogger ==
    /\ ExportInit
    /\ env \in LoggerEnvs
    /\ DockerOff
    /\ ConfigIdle
    /\ LoggerIdle
    /\ IndexIdle
    /\ SettingsIdle /\ SelectionIdle
NextLogger == LoggerNext
SpecLogger == InitLogger /\ [][NextLogger]_vars

\* The export index computed for some previous manifest and current file set.
InitIndex ==
    /\ ExportInit
    /\ DockerIdle
    /\ ConfigIdle
    /\ LoggerIdle
    /\ previousManifest \in [ IndexPaths -> PreviousMeta \cup {Absent} ]
    /\ currentFileSet \in [ IndexPaths -> CurrentMeta \cup {Absent} ]
    /\ index = NoIndex
    /\ SettingsIdle /\ SelectionIdle
NextIndex == IndexNext
SpecIndex == InitIndex /\ [][NextIndex]_vars

\* Plugin loads and setting changes, from some persisted data.
InitSettings ==
    /\ ExportInit
    /\ DockerIdle
    /\ ConfigIdle
    /\ LoggerIdle
    /\ IndexIdle
    /\ Settings = DefaultSettings
    /\ pluginData = Null \/ pluginData \in PersistedData
    /\ loads = 0
    /\ loadedData = Undefined
    /\ mergedSettings = DefaultSettings
    /\ applied = <<>>
    /\ SelectionIdle
NextSettings == SettingsNext
SpecSettings == InitSettings /\ [][NextSettings]_vars

\* Selections of files to export, over some vault.
InitSelection ==
    /\ ExportInit
    /\ DockerIdle
    /\ ConfigIdle
    /\ LoggerIdle
    /\ IndexIdle
    /\ SettingsIdle
    /\ vaultFiles \in SelectionVaults
    /\ exportPaths = <<>>
    /\ selected = <<>>
    /\ selectedBy = "none"
NextSelection == SelectionNext
SpecSelection == InitSelection /\ [][NextSelection]_vars

\* ------------------------------------------------------------- properties

Count(seq, x) == Cardinality({ i \in 1..Len(seq) : seq[i] = x })
Called(name) == name \in Range(calls)
Logged(kind) == \E i \in 1..Len(exportLog) : exportLog[i].kind = kind

\* The request is one that validation must reject, in the words of the claim:
\* no file, a destination that is not absolute, not a directory, or that does
\* not exist and cannot be created, or a vault without .obsidian.
InvalidRequest ==
    \/ files = 0
    \/ ~destination.isAbsolute
    \/ ~destination.isDirectory
    \/ ~fsBefore.destExists /\ destination.createError # "none"
    \/ ~vault.obsidian

Started == pc \notin { "idle", "validate" }

\* C1: a request that fails validation returns undefined without beginning the
\* renderer batch and without any build, deletion or save step.
C1_ValidationGatesBuild ==
    (Started /\ InvalidRequest) =>
        /\ pc = "returned"
        /\ result = "undefined"
        /\ calls = <<>>
        /\ deleteAttempts = <<>>
        /\ written = <<>>

C1_Witness ==
    /\ pc = "returned"
    /\ files > 0 /\ destination.isAbsolute /\ destination.isDirectory
    /\ ~vault.obsidian
    /\ result = "undefined"
    /\ calls = <<>>

\* C2: when validation fails the destination file system is exactly as it was
\* before the request; in particular the directory has not been created.
C2_NoPartialWork ==
    (pc = "returned" /\ InvalidRequest) =>
        [ destExists |-> destExists, disk |-> disk, written |-> written ] = fsBefore

\* The font files among the old output paths, whatever the letter case.
FontPaths == { p \in OldPaths : p.extension \in { "woff", "TTF", "Woff2", "otf" } }

CleanupReturned == Called("cleanupOldFiles") /\ pc \notin { "cleanup", "deleting" }

\* C3: cleanup never hands a font file to delete(), and once it has returned
\* every other entry of the deleted list has been handed to delete() exactly once.
C3_FontsNeverDeleted ==
    /\ \A p \in FontPaths : Count(deleteAttempts, p) = 0 /\ (p \in fsBefore.disk => p \in disk)
    /\ \A p \in OldPaths \ FontPaths :
         /\ Count(deleteAttempts, p) <= 1
         /\ website.built /\ CleanupReturned =>
              Count(deleteAttempts, p) = Count(website.deletedFiles, p)
         /\ ~website.built => Count(deleteAttempts, p) = 0

C3_Witness ==
    /\ pc = "sweep"
    /\ Len(website.deletedFiles) = 2
    /\ website.deletedFiles[1].extension = "TTF"
    /\ website.deletedFiles[2].extension = "html"
    /\ deleteAttempts = << website.deletedFiles[2] >>

FirstIndex(seq, x) == CHOOSE i \in 1..Len(seq) : seq[i] = x /\ \A j \in 1..(i - 1) : seq[j] # x

\* Deletion is over before saving starts: no cleanup call follows the save
\* call, every entry of the deleted list has been visited, and nothing is
\* deleted once the save step is entered.
DeletionBeforeSave ==
    Called("saveWebsiteFiles") =>
        /\ pc \notin { "cleanup", "deleting", "sweep" }
        /\ \A i \in 1..Len(calls) :
             calls[i] \in { "cleanupOldFiles", "removeEmptyDirectories" } =>
                 i < FirstIndex(calls, "saveWebsiteFiles")
        /\ Called("cleanupOldFiles") /\ Len(website.deletedFiles) > 0 =>
                 cursor = Len(website.deletedFiles) + 1 /\ Called("removeEmptyDirectories")

\* C4 as stated: in a run whose build returned a website the deletion sub-step
\* runs iff deleteOld, is over before the first file is saved, and the run
\* always proceeds to the save step.
C4_Original ==
    /\ (website.built /\ pc \notin { "cleanup" }) => (Called("cleanupOldFiles") <=> deleteOld)
    /\ DeletionBeforeSave
    /\ (website.built /\ pc = "returned") => Called("saveWebsiteFiles")

\* C4 amended: ... and, when saveFiles is true, the run always proceeds to the
\* save step, even if a deletion or the sweep failed.
C4_CleanupThenSave ==
    /\ (website.built /\ pc \notin { "cleanup" }) => (Called("cleanupOldFiles") <=> deleteOld)
    /\ DeletionBeforeSave
    /\ (website.built /\ pc = "returned" /\ saveFiles) => Called("saveWebsiteFiles")
    /\ (website.built /\ pc = "returned" /\ ~saveFiles) =>
            ~Called("saveWebsiteFiles") /\ written = <<>> /\ result = "website"

DeleteFailed ==
    \E i \in 1..Len(exportLog) : exportLog[i].text[1] = "Warning: Could not delete file "

SweepFailed ==
    \E i \in 1..Len(exportLog) :
        exportLog[i].text[1] = "Warning: Could not remove empty directories: "

C4_Witness ==
    /\ pc = "returned"
    /\ deleteOld /\ saveFiles
    /\ DeleteFailed /\ SweepFailed
    /\ Called("saveWebsiteFiles")
    /\ result = "website"

SavePrefix == "Failed to save website files: "
SaveFailed == Len(thrown) = 2 /\ thrown[1] = SavePrefix

\* C5: an I/O error of the save step ends the run with undefined, the
\* underlying message reaches the notice and the log, and the catch and finally
\* blocks leave every written and every deleted file as it is.
C5_SaveFailureNoRollback ==
    /\ [](SaveFailed /\ pc \in { "finally", "returned" } =>
            /\ result = "undefined"
            /\ notices = << <<"Export Failed: ", SavePrefix, thrown[2]>> >>
            /\ thrown[2] \in IOErrors
            /\ exportLog[Len(exportLog)] = Entry("error", <<SavePrefix, thrown[2]>>))
    /\ [][SaveFailed => (disk' = disk /\ written' = written /\ destExists' = destExists)]_vars

C5_Witness ==
    /\ pc = "returned"
    /\ SaveFailed
    /\ result = "undefined"
    /\ written # <<>>
    /\ disk # fsBefore.disk

Cancelled == Called("build") /\ ~website.built /\ thrown = NoError

\* C6: a cancelled build ends the run with undefined and the neutral notice, no
\* error entry in the log, no deletion step and no save step.
C6_CancelIsNeutral ==
    Cancelled =>
        /\ result = "undefined"
        /\ notices = << <<"Export Cancelled">> >>
        /\ ~Logged("error")
        /\ ~Called("cleanupOldFiles") /\ ~Called("saveWebsiteFiles")
        /\ deleteAttempts = <<>> /\ written = <<>> /\ disk = fsBefore.disk
        /\ pc \in { "finally", "returned" }

C6_Witness == pc = "returned" /\ Cancelled /\ result = "undefined"

ListedAssets ==
    { f \in Range(website.newFiles) \cup Range(website.updatedFiles) : ~f.isWebpage }

\* C7: a run with saveFiles = true that returns the website has persisted every
\* new and updated asset file and then the two manifest files, the manifests
\* also when there is no asset file.
C7_DonePersistsEverything ==
    (pc = "returned" /\ result = "website" /\ saveFiles) =>
        /\ Range(written) = ListedAssets \cup { WebsiteData, IndexData }
        /\ Len(written) = Cardinality(ListedAssets) + 2
        /\ written[Len(written) - 1] = WebsiteData
        /\ written[Len(written)] = IndexData

C7_Witness ==
    /\ pc = "returned" /\ result = "website" /\ saveFiles
    /\ written = << AssetNew, AssetUpdated, WebsiteData, IndexData >>

\* C8: the exit code of runDockerExport is 0 exactly when the run succeeded and
\* 1 for every failed run, a caught exception included.
C8_ExitCode ==
    dpc = "exited" =>
        /\ exitCode \in { 0, 1 }
        /\ exitCode = 0 <=> dresult.success
        /\ error # NoException => exitCode = 1
        /\ exitCode = 0 => exportCalled /\ dresult.filesGenerated > 0 /\ dresult.errors = <<>>
        /\ exitCode = 1 => dresult.filesGenerated = 0 /\ dresult.errors # <<>>

C8_Witness ==
    /\ dpc = "exited"
    /\ error # NoException
    /\ exitCode = 1

ValidatorRejects ==
    /\ options.validateVault # "false"
    /\ error = NoException
    /\ ~validateVault(dvault).isValid

\* C9: with validation enabled and an invalid vault the export step is never
\* invoked; the result is a failure with no file generated and the validation
\* error messages, and the command line exits with 1.
C9_InvalidVaultStopsExport ==
    ValidatorRejects =>
        /\ ~exportCalled
        /\ dpc \in { "returned", "exited" } =>
              /\ ~dresult.success
              /\ dresult.filesGenerated = 0
              /\ dresult.errors = Messages(validateVault(dvault).errors)
              /\ dresult.errors # <<>>
        /\ dpc = "exited" => exitCode = 1

C9_Witness ==
    /\ dpc = "exited"
    /\ dvault.root = "dir" /\ dvault.obsidian = "missing" /\ dvault.markdownCount = 3
    /\ ~exportCalled
    /\ dresult.errors = << <<"Missing .obsidian configuration directory">> >>
    /\ exitCode = 1

HasSeverityError(errors) == \E i \in 1..Len(errors) : errors[i].severity = "error"

\* C10: a validation result is invalid iff its error list holds an entry of
\* severity error; warnings and suggestions have no influence.
C10_ValidityFromErrorsOnly ==
    dresult.validated =>
        (~dresult.validationResult.isValid <=> HasSeverityError(dresult.validationResult.errors))

C10_Witness ==
    /\ dresult.validated
    /\ dresult.validationResult.isValid
    /\ Len(dresult.validationResult.warnings) >= 2
    /\ Len(dresult.validationResult.suggestions) >= 2

Codes(items) == [ i \in 1..Len(items) |-> items[i].code ]

\* C11: for an existing vault directory without a .obsidian entry the result is
\* invalid and carries exactly one error, OBSIDIAN_CONFIG_MISSING, whatever
\* else the directory holds.
C11_MissingObsidianOneError ==
    (dresult.validated /\ dvault.root = "dir" /\ dvault.obsidian = "missing") =>
        /\ ~dresult.validationResult.isValid
        /\ Codes(dresult.validationResult.errors) = << "OBSIDIAN_CONFIG_MISSING" >>

C11_Witness ==
    /\ dresult.validated
    /\ dvault.root = "dir" /\ dvault.obsidian = "missing"
    /\ dvault.markdownCount = 0 /\ dvault.largeFiles = 1 /\ dvault.assetsCount > AssetsLimit
    /\ Codes(dresult.validationResult.errors) = << "OBSIDIAN_CONFIG_MISSING" >>
    /\ Len(dresult.validationResult.warnings) >= 3

\* C12: when the root is missing or not a directory the result carries exactly
\* the one root error and neither a warning nor a suggestion.
C12_RootErrorShortCircuits ==
    (dresult.validated /\ dvault.root # "dir") =>
        /\ Codes(dresult.validationResult.errors) =
              << IF dvault.root = "missing" THEN "VAULT_NOT_FOUND" ELSE "VAULT_NOT_DIRECTORY" >>
        /\ dresult.validationResult.warnings = <<>>
        /\ dresult.validationResult.suggestions = <<>>

InvalidConfigFiles == { name \in ConfigNames : ConfigFile(dvault, name) = "invalid" }

InvalidJsonErrors(r) ==
    { i \in 1..Len(r.errors) : r.errors[i].code = "INVALID_JSON" /\ r.errors[i].severity = "error" }

WarningWithSuggestion(r, code) ==
    \E i \in 1..Len(r.warnings) : r.warnings[i].code = code /\ r.warnings[i].suggestion # ""

\* C13: inside a config directory every present, malformed configuration file
\* yields an INVALID_JSON error and the vault is invalid; an absent app.json or
\* workspace.json yields a warning with a suggestion and leaves validity alone.
C13_MalformedVersusAbsent ==
    (dresult.validated /\ ObsidianIsDir(dvault)) =>
        LET r == dresult.validationResult
        IN  /\ \A name \in InvalidConfigFiles :
                 /\ ~r.isValid
                 /\ \E i \in InvalidJsonErrors(r) : r.errors[i].message = <<"Invalid JSON in ", name>>
            /\ ConfigFile(dvault, "app.json") = "missing" <=>
                    WarningWithSuggestion(r, "APP_JSON_MISSING")
            /\ ConfigFile(dvault, "workspace.json") = "missing" <=>
                    WarningWithSuggestion(r, "WORKSPACE_JSON_MISSING")
            /\ (InvalidConfigFiles = {} /\ dvault.htmlExportData # "invalid") => r.isValid

C13_Witness ==
    /\ dresult.validated /\ ObsidianIsDir(dvault)
    /\ dvault.config["app.json"] = "missing"
    /\ dvault.config["workspace.json"] = "missing"
    /\ dvault.config["core-plugins.json"] = "invalid"
    /\ ~dresult.validationResult.isValid
    /\ Cardinality(InvalidJsonErrors(dresult.validationResult)) = 1
    /\ WarningWithSuggestion(dresult.validationResult, "APP_JSON_MISSING")

\* The states in which configErrors is the verdict on config.
Validated == lastOp \in { "loadConfiguration", "saveConfig" }

NonEmpty(s) == s \notin { "undefined", "" }
NonBlank(s) == s \notin { "undefined", "", " " }

\* The messages of each field.
FieldMessages ==
    << { <<"Site name is required">> },
       { <<"Site description is required">> },
       { <<"Site URL is required">>,
         <<"Site URL must be a valid URL (e.g., https://example.com)">> },
       { <<"Google Analytics ID must be in format G-XXXXXXXXXX, UA-XXXXXXXX-X, or GT-XXXXXXXXXX">> } >>

AtMostOnePerField(errors) ==
    /\ \A k \in 1..Len(FieldMessages) :
         Cardinality({ i \in 1..Len(errors) : errors[i] \in FieldMessages[k] }) <= 1
    /\ \A i \in 1..Len(errors) : \E k \in 1..Len(FieldMessages) : errors[i] \in FieldMessages[k]

AnalyticsIdAcceptable(c) ==
    LET id == Field(c.seo, "googleAnalyticsId")
    IN  id \in { "undefined", "" } \/ id \in { "G-ABC123", "UA-12345-1", "GT-XYZ9" }

UrlIsAbsolute(c) ==
    Field(c.site, "url") \in { "https://example.com", "http://localhost:8080" }

\* C14 as stated: the error list is empty iff name, description and URL are
\* non-empty, the URL is absolute and the analytics id is absent or in a vendor
\* format; at most one message per field.
C14_Original ==
    Validated =>
        /\ configErrors = <<>> <=>
              /\ NonEmpty(Field(config.site, "name"))
              /\ NonEmpty(Field(config.site, "description"))
              /\ NonEmpty(Field(config.site, "url"))
              /\ UrlIsAbsolute(config)
              /\ AnalyticsIdAcceptable(config)
        /\ AtMostOnePerField(configErrors)

\* C14 amended: ... iff name, description and URL are non-blank (not empty
\* after trimming white space), the URL is absolute and the analytics id is
\* absent, empty or in a vendor format; at most one message per field.
C14_ValidIffWellFormed ==
    Validated =>
        /\ configErrors = <<>> <=>
              /\ NonBlank(Field(config.site, "name"))
              /\ NonBlank(Field(config.site, "description"))
              /\ NonBlank(Field(config.site, "url"))
              /\ UrlIsAbsolute(config)
              /\ AnalyticsIdAcceptable(config)
        /\ AtMostOnePerField(configErrors)

C14_Witness ==
    /\ Validated
    /\ Field(config.site, "name") = " "
    /\ Field(config.site, "url") = "not a url"
    /\ Field(config.seo, "googleAnalyticsId") = "UA-12345"
    /\ Len(configErrors) = 3

TrueSpellings == { "true", "TRUE", "1", "Yes" }
FalseSpellings == { "false", "False", "0", "NO" }
UnknownSpellings == { "undefined", "maybe", "" }

DeepMerged(c, o) ==
    LET merged(s) == IF s \in DOMAIN o
                     THEN [ f \in (DOMAIN c[s]) \cup (DOMAIN o[s]) |->
                              IF f \in DOMAIN o[s] THEN o[s][f] ELSE c[s][f] ]
                     ELSE c[s]
    IN  [ s \in Sections |-> merged(s) ]

\* C16: the configuration resolved by loadConfiguration is the environment
\* configuration with the overrides deep-merged over it: a field the override
\* does not name keeps its resolved value.
C16_OverridesDeepMerged ==
    lastOp = "loadConfiguration" =>
        [ s \in Sections |-> config[s] ] =
            DeepMerged(loadFromEnvironment(DEFAULT_WEB_CONFIG, env).config, overrides)

\* C17: DEFAULT_WEB_CONFIG holds its original values in every state.
C17_DefaultsNeverMutated == DEFAULT_WEB_CONFIG = BuiltInDefaults

\* ---------------------------------------------------------------- logger

\* The minimum level a value of LOG_LEVEL stands for.
ExpectedLevel(v) ==
    CASE v \in { "debug", "DEBUG" } -> DEBUG
      [] v \in { "warn", "WARN" } -> WARN
      [] v \in { "error", "Error", "ERROR" } -> ERROR
      [] OTHER -> INFO

LoggingMethods ==
    { "debug", "info", "warn", "error", "progress" }

EntriesOfLevel(L, level) ==
    { i \in 1..Len(L.logEntries) : L.logEntries[i].level = level }

\* The call recorded in lastCall appended exactly one entry, of the given level.
AppendedOne(level) ==
    /\ Len(logger.logEntries) = Len(lastCall.before.logEntries) + 1
    /\ SubSeq(logger.logEntries, 1, Len(lastCall.before.logEntries))
          = lastCall.before.logEntries
    /\ logger.logEntries[Len(logger.logEntries)].level = level

\* C18: every entry of the in-memory log has a level at or above the logger's
\* minimum level, which is the one LOG_LEVEL stood for at construction (INFO when
\* unset or unknown); a debug, info, warn, error or progress call below the
\* minimum level appends nothing and prints nothing; an ERROR-level call is
\* always recorded.
C18_LevelThreshold ==
    logger # NoLogger =>
        /\ logger.logLevel = ExpectedLevel(env["LOG_LEVEL"])
        /\ \A i \in 1..Len(logger.logEntries) :
              logger.logEntries[i].level >= logger.logLevel
        /\ (lastCall.method \in LoggingMethods /\ lastCall.level < logger.logLevel)
              => logger = lastCall.before
        /\ lastCall.method = "error" => AppendedOne(ERROR)

C18_Witness ==
    /\ logger # NoLogger
    /\ logger.logLevel = WARN
    /\ lastCall.method = "progress"
    /\ Len(logger.logEntries) = 2
    /\ \E i \in 1..2 : logger.logEntries[i].level = ERROR

\* C19: generateSummaryReport and exportLogsAsJSON report an error count and a
\* warning count equal to the numbers of ERROR and WARN entries of the log, report
\* success exactly when the error count is zero, and leave the log unchanged.
C19_ReportsCountEntries ==
    /\ lastCall.method = "generateSummaryReport" =>
          /\ lastCall.returned.errors = Cardinality(EntriesOfLevel(logger, ERROR))
          /\ lastCall.returned.warnings = Cardinality(EntriesOfLevel(logger, WARN))
          /\ lastCall.returned.status = "SUCCESS" <=> EntriesOfLevel(logger, ERROR) = {}
          /\ logger = lastCall.before
    /\ lastCall.method = "exportLogsAsJSON" =>
          /\ lastCall.returned.errorCount = Cardinality(EntriesOfLevel(logger, ERROR))
          /\ lastCall.returned.warningCount = Cardinality(EntriesOfLevel(logger, WARN))
          /\ lastCall.returned.success <=> EntriesOfLevel(logger, ERROR) = {}
          /\ lastCall.returned.entries = logger.logEntries
          /\ logger = lastCall.before

C19_Witness ==
    /\ lastCall.method = "generateSummaryReport"
    /\ lastCall.returned.errors = 0
    /\ lastCall.returned.warnings = 2
    /\ lastCall.returned.status = "SUCCESS"

\* Some CI variable holds a non-empty value.
CIDetected(e) ==
    \E name \in { "CI", "GITHUB_ACTIONS", "GITLAB_CI", "JENKINS_URL", "BUILDKITE", "CIRCLECI" } :
        e[name] \notin { "undefined", "" }

\* The call recorded in lastCall printed the troubleshooting block.
BlockEmitted ==
    \E i \in (Len(lastCall.before.out) + 1)..Len(logger.out) :
        logger.out[i].kind = "troubleshooting"

\* C20: errorWithTroubleshooting always appends exactly one ERROR entry, and it
\* prints the troubleshooting block exactly when a CI environment was detected,
\* that is when at least one of CI, GITHUB_ACTIONS, GITLAB_CI, JENKINS_URL,
\* BUILDKITE, CIRCLECI held a non-empty value when the logger was constructed.
C20_TroubleshootingInCI ==
    lastCall.method = "errorWithTroubleshooting" =>
        /\ AppendedOne(ERROR)
        /\ BlockEmitted <=> CIDetected(env)

C20_Witness ==
    /\ lastCall.method = "errorWithTroubleshooting"
    /\ env["CI"] = "undefined"
    /\ env["JENKINS_URL"] # "undefined"
    /\ logger.logLevel = WARN
    /\ BlockEmitted

\* ---------------------------------------------------------- export index

\* The paths of IndexPaths with a font extension, in any letter case.
ProtectedPaths ==
    { [base |-> "inter", extension |-> "woff"], [base |-> "Mono", extension |-> "TTF"] }

\* C21: the sets new, updated and unchanged of the export index are pairwise
\* disjoint and their union is the current file set; deleted is previous minus
\* current without the paths of protected (font) extension; no path is in more
\* than one of the four sets.
C21_DiffPartitions ==
    index.computed =>
        /\ index.newFiles \cap index.updatedFiles = {}
        /\ index.newFiles \cap index.unchangedFiles = {}
        /\ index.updatedFiles \cap index.unchangedFiles = {}
        /\ index.newFiles \cup index.updatedFiles \cup index.unchangedFiles
              = Keys(currentFileSet)
        /\ index.deletedFiles
              = (Keys(previousManifest) \ Keys(currentFileSet)) \ ProtectedPaths
        /\ index.deletedFiles
              \cap (index.newFiles \cup index.updatedFiles \cup index.unchangedFiles) = {}

C21_Witness ==
    /\ index.computed
    /\ index.newFiles = { [base |-> "img", extension |-> "png"] }
    /\ index.deletedFiles = { [base |-> "old", extension |-> "html"] }
    /\ index.skippedProtected = { [base |-> "Mono", extension |-> "TTF"] }
    /\ index.updatedFiles = { [base |-> "inter", extension |-> "woff"] }

\* ------------------------------------------------- exportForDocker, catch

\* Entries appended to the log since the exportForDocker call in progress began.
EntriesOfRun(level) ==
    { i \in (run.entries + 1)..Len(logger.logEntries) : logger.logEntries[i].level = level }

\* The troubleshooting bundle an exception stands for.
ExpectedBundle(e) ==
    CASE e.code = "ENOENT" -> "VAULT_NOT_FOUND"
      [] e.code = "EACCES" -> "PERMISSION_DENIED"
      [] e.code \notin { "ENOENT", "EACCES" } /\ e.message = <<"heap ", "out of memory">>
           -> "OUT_OF_MEMORY"
      [] OTHER -> "none"

\* C22: an exception raised inside exportForDocker is held by its catch block
\* and converted into a Failed result (success false, no file generated, one
\* error message) with exactly one ERROR entry logged by the call, whose
\* troubleshooting bundle is VAULT_NOT_FOUND for ENOENT, else PERMISSION_DENIED
\* for EACCES, else OUT_OF_MEMORY for a message containing 'out of memory', else
\* none.
C22_ExceptionsBecomeFailures ==
    error # NoException =>
        /\ dpc \in { "catch", "returned", "exited" }
        /\ dpc # "catch" =>
              /\ ~dresult.success
              /\ dresult.filesGenerated = 0
              /\ dresult.errors = << <<"Docker export failed: ">> \o error.message >>
              /\ Cardinality(EntriesOfRun(ERROR)) = 1
              /\ \A i \in EntriesOfRun(ERROR) :
                    /\ logger.logEntries[i].context.troubleshooting = ExpectedBundle(error)
                    /\ logger.logEntries[i].error = error

C22_Witness ==
    /\ dpc = "exited"
    /\ error = [ code |-> "EACCES", message |-> <<"heap ", "out of memory">> ]
    /\ \E i \in EntriesOfRun(ERROR) :
          logger.logEntries[i].context.troubleshooting = "PERMISSION_DENIED"

\* --------------------------------------------------------------- settings

\* outcome is truth with the persisted object merged over it: the same keys as
\* truth; a key the persisted object does not define keeps its default; an
\* array and a scalar are replaced by the persisted value; a nested object is
\* merged in the same way.
RECURSIVE MergedOver(_, _, _)
MergedOver(outcome, truth, persisted) ==
    /\ outcome.t = "object"
    /\ DOMAIN outcome.v = DOMAIN truth.v
    /\ \A key \in DOMAIN truth.v :
          LET default == truth.v[key]
              has == persisted.t = "object" /\ key \in DOMAIN persisted.v
                       /\ persisted.v[key].t \notin { "undefined", "null" }
          IN  IF ~has THEN outcome.v[key] = default
              ELSE IF default.t \in { "array", "scalar" }
              THEN outcome.v[key] = persisted.v[key]
              ELSE persisted.v[key].t = "object"
                      => MergedOver(outcome.v[key], default, persisted.v[key])

\* C23: merging persisted settings over the defaults keeps every default field
\* the persisted object does not define, at every depth, replaces an array by
\* the persisted array, overwrites a scalar by the persisted value, and adds no
\* key the defaults do not have.
C23_DeepAssignMerges ==
    loads > 0 =>
        /\ MergedOver(mergedSettings, DefaultSettings, loadedData)
        /\ loadedData.t = "null" => mergedSettings = DefaultSettings

C23_Witness ==
    /\ loads = 1
    /\ loadedData.t = "object"
    /\ "exportPreset" \in DOMAIN loadedData.v
    /\ "exportOptions" \in DOMAIN loadedData.v
    /\ "graphViewOptions" \in DOMAIN loadedData.v.exportOptions.v
    /\ "showOrphanNodes" \in DOMAIN loadedData.v.exportOptions.v.graphViewOptions.v
    /\ "siteName" \notin DOMAIN loadedData.v.exportOptions.v
    /\ mergedSettings.v.filePickerWhitelist = Array(<<"md", "png">>)
    /\ mergedSettings.v.exportOptions.v.graphViewOptions.v.enabled = Scalar("false")
    /\ mergedSettings.v.exportOptions.v.siteName = Scalar("")

\* C27: the web-optimized defaults are applied by the first load only, so a
\* later load leaves the settings as persisted.
C27_OptimizedOnce ==
    /\ \A i \in 1..Len(applied) : applied[i] = 1
    /\ loads > 1 => Get(Settings.v.exportOptions, "slugifyPaths")
                       = Get(mergedSettings.v.exportOptions, "slugifyPaths")

\* ------------------------------------------------- environment overlay

\* The field each recognised variable stands for.
FieldOfVariable ==
    [ OBSIDIAN_SITE_NAME |-> <<"site", "name">>,
      OBSIDIAN_SITE_DESCRIPTION |-> <<"site", "description">>,
      OBSIDIAN_SITE_URL |-> <<"site", "url">>,
      OBSIDIAN_GOOGLE_ANALYTICS_ID |-> <<"seo", "googleAnalyticsId">>,
      OBSIDIAN_FEATURE_SEARCH |-> <<"features", "search">>,
      OBSIDIAN_FEATURE_SIDEBAR |-> <<"features", "sidebar">>,
      OBSIDIAN_GENERATE_SITEMAP |-> <<"seo", "generateSitemap">>,
      OBSIDIAN_SLUGIFY_PATHS |-> <<"advanced", "slugifyPaths">>,
      OBSIDIAN_OFFLINE_RESOURCES |-> <<"advanced", "offlineResources">> ]

ConfigFields ==
    { <<"site", "name">>, <<"site", "description">>, <<"site", "url">>,
      <<"seo", "googleAnalyticsId">>, <<"seo", "generateSitemap">>,
      <<"features", "search">>, <<"features", "sidebar">>,
      <<"advanced", "slugifyPaths">>, <<"advanced", "offlineResources">> }

\* The variables that hold a non-empty value.
SetVariables == { name \in DOMAIN FieldOfVariable : env[name] \notin { "undefined", "" } }

\* The fields in which the resolved configuration differs from the defaults; a
\* property that is missing and one that holds undefined read the same.
ChangedFields ==
    { sf \in ConfigFields :
        LET was == DEFAULT_WEB_CONFIG[sf[1]]
            is == config[sf[1]]
            unset(sec) == sf[2] \notin DOMAIN sec \/ sec[sf[2]] \in { "undefined" }
        IN  IF sf[2] \in { "name", "description", "url", "googleAnalyticsId" }
            THEN \/ unset(was) # unset(is)
                 \/ ~unset(was) /\ ~unset(is) /\ was[sf[2]] # is[sf[2]]
            ELSE was[sf[2]] # is[sf[2]] }

\* C24: in the environment overlay each recognised variable overwrites its own
\* field only: the configuration loadFromEnvironment returns differs from the
\* defaults at most in the fields of the variables that are set, so with one
\* variable set it differs in that variable's field only, and with none set, or
\* all set to the empty string, it equals the defaults.
C24_OneFieldPerVariable ==
    lastOp = "loadFromEnvironment" =>
        /\ ChangedFields \subseteq { FieldOfVariable[name] : name \in SetVariables }
        /\ \A name \in SetVariables :
              (name \in { "OBSIDIAN_SITE_NAME", "OBSIDIAN_SITE_DESCRIPTION", "OBSIDIAN_SITE_URL",
                          "OBSIDIAN_GOOGLE_ANALYTICS_ID" })
                 => config[FieldOfVariable[name][1]][FieldOfVariable[name][2]] = env[name]

C24_Witness ==
    /\ lastOp = "loadFromEnvironment"
    /\ SetVariables = { "OBSIDIAN_SITE_URL" }
    /\ ChangedFields = { <<"site", "url">> }

\* ---------------------------------------------------------- render batch

ValidationFailed ==
    notices # <<>> /\ notices[1][1] = "Export validation failed: "

\* C25: beginBatch and endBatch are balanced in every run of exportFiles: a
\* run whose validation fails calls neither; a run whose validation passes
\* calls beginBatch once, before anything else, and endBatch once, after
\* everything else, however the run ends.
C25_BatchBalanced ==
    /\ Count(calls, "endBatch") <= Count(calls, "beginBatch")
    /\ Count(calls, "beginBatch") <= 1
    /\ Called("endBatch") => pc = "returned"
    /\ pc = "returned" =>
          IF ValidationFailed
          THEN calls = <<>>
          ELSE /\ Count(calls, "beginBatch") = 1
               /\ Count(calls, "endBatch") = 1
               /\ calls[1] = "beginBatch"
               /\ calls[Len(calls)] = "endBatch"

C25_Witness ==
    /\ pc = "returned"
    /\ thrown # NoError
    /\ Called("cleanupOldFiles")
    /\ calls[1] = "beginBatch"
    /\ calls[Len(calls)] = "endBatch"
    /\ result = "undefined"

\* ------------------------------------------------ environment report

AnalyticsVariable == "OBSIDIAN_GOOGLE_ANALYTICS_ID"

\* What the last call of logEnvironmentConfig wrote to the console.
ReportPrinted ==
    LET n == Len(logEnvironmentConfig(DEFAULT_WEB_CONFIG, env))
    IN  SubSeq(console, Len(console) - n + 1, Len(console))

\* C26: the output of logEnvironmentConfig does not reveal the analytics id:
\* with any other well-formed id in OBSIDIAN_GOOGLE_ANALYTICS_ID and everything
\* else the same, the call prints the same lines.
C26_AnalyticsIdHidden ==
    (lastOp = "logEnvironmentConfig" /\ MatchesAnalyticsId(env[AnalyticsVariable])) =>
        \A id \in { "G-ABC123", "UA-12345-1", "GT-XYZ9" } :
            MatchesAnalyticsId(id) =>
                logEnvironmentConfig(DEFAULT_WEB_CONFIG, [ env EXCEPT ![AnalyticsVariable] = id ])
                    = ReportPrinted

\* ------------------------------------------------- summary of each run

\* The summary reports printed since the current call of exportForDocker began.
SummariesOfRun ==
    { i \in (run.out + 1)..Len(logger.out) : logger.out[i].kind = "summary" }

\* C28: in any sequence of exportForDocker calls in one process, the summary a
\* run prints says SUCCESS exactly when that run returns success = true.
C28_StatusMatchesResult ==
    (dpc = "returned" /\ run.number >= 1) =>
        \A i \in SummariesOfRun :
            (logger.out[i].report.status = "SUCCESS") <=> dresult.success

\* ------------------------------------------ start and end of the operation

\* The entries of the current call that log the start of 'Docker Export'.
StartsOfRun ==
    { i \in (run.entries + 1)..Len(logger.logEntries) :
        logger.logEntries[i].message = <<"Starting: ", "Docker Export">> }

CompletionOf(i) ==
    { j \in (i + 1)..Len(logger.logEntries) :
        /\ logger.logEntries[j].message = <<"Completed: ", "Docker Export">>
        /\ logger.logEntries[j].context.operationId
              = logger.logEntries[i].context.operationId }

\* C29: a call of exportForDocker that logs the start of 'Docker Export' has,
\* when it returns, logged the matching completion and printed the summary
\* report exactly once, whichever way it returns.
C29_StartHasCompletion ==
    (dpc \in { "returned", "exited" } /\ run.number >= 1) =>
        \A i \in StartsOfRun :
            /\ CompletionOf(i) # {}
            /\ Cardinality(SummariesOfRun) = 1

\* ------------------------------------------------------ folder selection

\* The file lies inside the folder, at any depth.
Inside(f, folder) == startsWith(f, folder \o <<"/">>)

\* The file is one the selection asked for: a named file, or a file inside a
\* named folder.
AskedFor(f) ==
    \E k \in 1..Len(exportPaths) :
        f = exportPaths[k] \/ Inside(f, exportPaths[k])

\* C30: a selection returns exactly the vault files it names and those inside
\* the folders it names, at any depth, never a file of another folder whose
\* path begins with the same characters; getAllFilesFromPaths with an empty
\* list returns all vault files.
C30_FolderSelectsItsFiles ==
    selectedBy # "none" =>
        IF selectedBy = "getAllFilesFromPaths" /\ exportPaths = <<>>
        THEN selected = vaultFiles
        ELSE /\ \A k \in 1..Len(selected) : AskedFor(selected[k])
             /\ \A k \in 1..Len(vaultFiles) :
                   AskedFor(vaultFiles[k]) => vaultFiles[k] \in Range(selected)

====
